---------------------------- MODULE Spec2Model ----------------------------
(***************************************************************************)
(* Model of buildtools/media-check-icons.py: the icon theme consistency    *)
(* checker.  One run walks the theme directories, collects the icons,      *)
(* classifies each icon, prints the report and exits.                      *)
(*                                                                         *)
(* Strings are sequences of tokens (<<"x", "-symbolic", ".svg">> is the    *)
(* file name x-symbolic.svg), so that endswith, replace, split and the     *)
(* sort of the icon names are computed as the code computes them.  No      *)
(* token is a prefix of another one, so the order of two token sequences   *)
(* is the order of the strings they spell.                                 *)
(***************************************************************************)
EXTENDS Integers, Sequences, FiniteSets, TLC

\* ------------------------------------------------------------- constants

THEME_PATH == <<"./share/icons">>

\* IGNORE_THEMES with no name in it
IgnoreNoTheme == {}

IGNORE_THEMES == {"application"}

FALLBACK_THEME == "hicolor"

SYMBOLIC_ONLY_ICONS ==
    {"list-add", "list-remove", "applications-graphics", "edit-find",
     "dialog-warning", "edit-clear", "view-refresh", "pan-down", "pan-right",
     "pan-left", "pan-end", "pan-start", "pan-up", "window-close",
     "application-exit", "document-save-as", "open-menu"}

SCALABLE_ONLY_ICONS ==
    {"color-selector-hsx", "color-selector-hsl", "color-selector-hsv",
     "color-selector-oklch", "color-selector-named", "color-selector-hsluv",
     "color-selector-cms", "color-selector-cmyk", "color-selector-okhsl",
     "color-selector-rgb", "color-wheel", "out-of-gamut-icon"}

IGNORE_ILLUSTRATIONS ==
    {"feBlend-icon", "feColorMatrix-icon", "feComponentTransfer-icon",
     "feComposite-icon", "feConvolveMatrix-icon", "feDiffuseLighting-icon",
     "feDisplacementMap-icon", "feFlood-icon", "feGaussianBlur-icon",
     "feImage-icon", "feMerge-icon", "feMorphology-icon", "feOffset-icon",
     "feSpecularLighting-icon", "feTile-icon", "feTurbulence-icon"}

IGNORE_UI == {"resizing-handle-horizontal", "resizing-handle-vertical"}

NO_PROBLEM == 0
BAD_SYMBOLIC_NAME == 1
BAD_SCALABLE_NAME == 2
MISSING_FROM == 3
ONLY_FOUND_IN == 4
SCALABLE_ONLY == 5
SYMBOLIC_ONLY == 6

\* --------------------------------------------------------------- strings

\* The tokens that occur in icon names, in the order of the strings they
\* spell (ASCII: '-' < '.' < '/' < letters).
TokenOrder ==
    <<"-symbolic", ".png", ".svg", "/", "cat", "color-wheel", "dog",
      "feBlend-icon", "list-add", "resizing-handle-horizontal", "sub", "w",
      "x", "z">>

TokenRank(tok) == CHOOSE i \in 1..Len(TokenOrder) : TokenOrder[i] = tok

\* a < b for two strings, as Python compares str
RECURSIVE StrLess(_, _)
StrLess(a, b) ==
    IF b = <<>> THEN FALSE
    ELSE IF a = <<>> THEN TRUE
    ELSE IF Head(a) = Head(b) THEN StrLess(Tail(a), Tail(b))
    ELSE TokenRank(Head(a)) < TokenRank(Head(b))

\* Sorted in descending order
RECURSIVE SortedDescending(_)
SortedDescending(S) ==
    IF S = {} THEN <<>>
    ELSE LET m == CHOOSE x \in S : \A y \in S \ {x} : StrLess(y, x)
         IN  <<m>> \o SortedDescending(S \ {m})

\* sorted(S) for a set of strings
RECURSIVE Sorted(_)
Sorted(S) ==
    IF S = {} THEN <<>>
    ELSE LET m == CHOOSE x \in S : \A y \in S \ {x} : StrLess(x, y)
         IN  <<m>> \o Sorted(S \ {m})

\* s.endswith(suffix)
EndsWith(s, suffix) ==
    /\ Len(s) >= Len(suffix)
    /\ SubSeq(s, Len(s) - Len(suffix) + 1, Len(s)) = suffix

\* s.replace(old, new): every occurrence, left to right, not overlapping
RECURSIVE Replace(_, _, _)
Replace(s, old, new) ==
    IF Len(s) < Len(old) THEN s
    ELSE IF SubSeq(s, 1, Len(old)) = old
         THEN new \o Replace(SubSeq(s, Len(old) + 1, Len(s)), old, new)
         ELSE <<Head(s)>> \o Replace(Tail(s), old, new)

\* tok in s
Contains(s, tok) == \E i \in 1..Len(s) : s[i] = tok

\* SplitFirst that drops what follows the kind: the icon is known by its
\* file name alone
SplitFirstKindOnly(s) ==
    LET i == CHOOSE k \in 1..Len(s) :
                 s[k] = "/" /\ \A j \in 1..(k - 1) : s[j] # "/"
    IN  <<SubSeq(s, 1, i - 1), <<>>>>

\* s.split('/', 1) of a string that holds a '/': <<before, after>>
SplitFirst(s) ==
    LET i == CHOOSE k \in 1..Len(s) :
                 s[k] = "/" /\ \A j \in 1..(k - 1) : s[j] # "/"
    IN  <<SubSeq(s, 1, i - 1), SubSeq(s, i + 1, Len(s))>>

\* s.split("/")[-1]
LastSegment(s) ==
    IF ~Contains(s, "/") THEN s
    ELSE LET i == CHOOSE k \in 1..Len(s) :
                      s[k] = "/" /\ \A j \in (k + 1)..Len(s) : s[j] # "/"
         IN  SubSeq(s, i + 1, Len(s))

\* os.path.join(a, b) for a relative b
PathJoin(a, b) == IF a = <<>> THEN b ELSE a \o <<"/">> \o b

\* name in S, for a set S of one-token strings
InNames(name, S) == Len(name) = 1 /\ name[1] \in S

\* the sequences that list the set S once each: the orders in which a set or
\* a directory listing can be iterated
Orders(S) ==
    {s \in [1..Cardinality(S) -> S] : \A i, j \in 1..Cardinality(S) :
                                          s[i] = s[j] => i = j}

\* ------------------------------------------------------------ directory

\* An entry of the tree below THEME_PATH: file fname in directory
\* <theme>/<rel>; fname = <<>> stands for the directory itself (it exists,
\* whatever it holds).  With rel = <<>> and fname = <<>> the entry is a
\* regular file named <theme> in THEME_PATH itself.
Ent(theme, rel, fname) == [theme |-> theme, rel |-> rel, fname |-> fname]

SYMBOLIC == <<"symbolic">>
SCALABLE == <<"scalable">>
SVG == <<".svg">>
SYMSVG == <<"-symbolic", ".svg">>

\* os.path.isdir(os.path.join(THEME_PATH, name))
IsDir(T, n) == \E e \in T : e.theme = n /\ (e.rel # <<>> \/ e.fname # <<>>)

\* DirsOf that leaves out the directories that hold no file
DirsOfWithFiles(T, theme) ==
    {e.rel : e \in {x \in T : x.theme = theme /\ x.fname # <<>>}}

\* the directories of a theme that os.walk visits
DirsOf(T, theme) == {e.rel : e \in {x \in T : x.theme = theme}}

\* the files of a directory
FilesOf(T, theme, rel) ==
    {e.fname : e \in {x \in T : x.theme = theme /\ x.rel = rel /\ x.fname # <<>>}}

\* the subsets of U with at most k elements
RECURSIVE UpTo(_, _)
UpTo(U, k) ==
    IF k = 0 THEN {{}}
    ELSE LET P == UpTo(U, k - 1)
         IN  P \cup {s \cup {e} : s \in P, e \in U}

MaxEntries == 3

MainThemes == {"hicolor", "custom"}

\* The files the main specification draws its trees from: a plain icon, a
\* symbolic-only, a scalable-only and two ignored icons, in the two kinds of
\* both themes, well named and misnamed, and the bare symbolic directory.
MainUniverse ==
    UNION {
        {Ent(t, SYMBOLIC \o <<"/", "cat">>, <<>>),
         Ent(t, SYMBOLIC \o <<"/", "cat">>, <<"x">> \o SYMSVG),
         Ent(t, SYMBOLIC \o <<"/", "cat">>, <<"x">> \o SVG),
         Ent(t, SYMBOLIC \o <<"/", "cat">>, <<"list-add">> \o SYMSVG),
         Ent(t, SYMBOLIC \o <<"/", "cat">>, <<"color-wheel">> \o SYMSVG),
         Ent(t, SYMBOLIC \o <<"/", "cat">>, <<"feBlend-icon">> \o SYMSVG),
         Ent(t, SYMBOLIC \o <<"/", "cat">>, <<"feBlend-icon">> \o SVG),
         Ent(t, SCALABLE \o <<"/", "cat">>, <<"x">> \o SVG),
         Ent(t, SCALABLE \o <<"/", "cat">>, <<"list-add">> \o SVG),
         Ent(t, SCALABLE \o <<"/", "cat">>, <<"color-wheel">> \o SVG),
         Ent(t, SCALABLE \o <<"/", "cat">>, <<"feBlend-icon">> \o SVG),
         Ent(t, SCALABLE \o <<"/", "cat">>, <<"feBlend-icon">> \o SYMSVG),
         Ent(t, SCALABLE \o <<"/", "cat">>, <<"resizing-handle-horizontal">> \o SVG)}
        : t \in MainThemes}

\* ---------------------------------------------------------------- state

VARIABLES
    tree,               \* the directory tree below THEME_PATH (the input)
    pc,                 \* where the run is
    listing,            \* os.listdir(THEME_PATH): the names not yet reached
    name,               \* the theme being walked
    walk,               \* os.walk(path): the directories not yet visited
    cur,                \* the directory whose files are being read
    files,              \* its files not yet read
    data,               \* icon name -> set of <<theme, kind>>
    bad_symbolic,
    bad_scalable,
    all_symbolics,
    queue,              \* sorted(data), the icons not yet classified
    only_found_in,
    missing_from,
    warn_missing_from,
    symbolic_found,
    scalable_found,
    errors,
    warnings,
    stderr,
    exit_code,
    run,                \* 1 for the first run on the tree, 2 for the second
    prev_stderr,        \* what the first run printed
    prev_exit           \* and its exit status

\* copylibs.py
VARIABLES
    dynamic,            \* the DT_NEEDED tags of the files on disk (the input)
    all_libs,           \* library name -> path, as find_libs returned it
    args_file,          \* args.file
    file_rest,          \* the input files not yet processed
    frames,             \* the calls of get_imported_libs_recursive in progress
    needed_libs,
    args_out,           \* args.outputdir and args.link
    out_rest,           \* the needed libraries not yet printed
    stdout,             \* what copylibs printed
    outputdir,          \* the names in the output directory
    copy_pc             \* where copylibs is

copyVars == <<dynamic, all_libs, args_file, file_rest, frames, needed_libs, args_out,
              out_rest, stdout, outputdir, copy_pc>>

\* get-pages.py
VARIABLES
    defs,               \* whether the file has a <defs> section (the input)
    views,              \* parse[1:], the attributes of each <view (the input)
    page_i,             \* the pages labelled so far
    labels,
    page_stdout,
    page_stderr,
    page_pc             \* where get-pages is

pageVars == <<defs, views, page_i, labels, page_stdout, page_stderr, page_pc>>

\* lpetest-parse.py
VARIABLES
    lpe_env,            \* what is missing: nothing, .git or the log (the input)
    lpe_log,            \* the (tag, value) pairs re.findall finds in the log
    log_i,              \* the pairs processed so far
    lpe_data,           \* data
    lpe_count,          \* count
    disk,               \* reference file name -> contents on disk
    open_testfiles,
    reads,              \* the names of the files read, in order
    writes,             \* the names of the files written, in order
    answers,            \* the texts typed at the prompt, in order
    write_rest,         \* the items of open_testfiles not yet written
    lpe_stderr,
    lpe_pc              \* where lpetest-parse is

lpeVars == <<lpe_env, lpe_log, log_i, lpe_data, lpe_count, disk, open_testfiles,
             reads, writes, answers, write_rest, lpe_stderr, lpe_pc>>

\* media-check-ui.py
VARIABLES
    ui_fn,              \* ui.fn, the name of the one file glob finds (the input)
    ui_doc,             \* the elements of the file as they open and close
    ui_i,               \* the openings and closings parse_child has passed
    chain,              \* self.chain: a place in objects, or 0 for None
    objects,            \* ui.objects
    obj_i,              \* the objects check has gone through
    ui_e,               \* self._e
    ui_stderr,
    ui_exit,
    ui_pc               \* where media-check-ui is

uiVars == <<ui_fn, ui_doc, ui_i, chain, objects, obj_i, ui_e, ui_stderr,
            ui_exit, ui_pc>>

\* the state of the other scripts
toolVars == <<copyVars, pageVars, lpeVars, uiVars>>

iconVars == <<tree, pc, listing, name, walk, cur, files, data, bad_symbolic,
          bad_scalable, all_symbolics, queue, only_found_in, missing_from,
          warn_missing_from, symbolic_found, scalable_found, errors, warnings,
          stderr, exit_code, run, prev_stderr, prev_exit>>

vars == <<iconVars, toolVars>>

walkVars == <<listing, name, walk, cur, files>>
collectVars == <<data, bad_symbolic, bad_scalable, all_symbolics>>
bucketVars == <<only_found_in, missing_from, warn_missing_from,
                symbolic_found, scalable_found>>
resultVars == <<errors, warnings>>
outVars == <<stderr, exit_code>>
runVars == <<run, prev_stderr, prev_exit>>

NoDir == [orig |-> <<>>, kind |-> <<>>, root |-> <<>>]
\* exit_code before the process has ended; <<n>> once it ended with status n
NoExit == <<>>

\* copylibs is not running
CopyOff ==
    /\ dynamic = {}
    /\ all_libs = <<>>
    /\ args_file = <<>>
    /\ file_rest = <<>>
    /\ frames = <<>>
    /\ needed_libs = <<>>
    /\ args_out = <<>>
    /\ out_rest = <<>>
    /\ stdout = <<>>
    /\ outputdir = {}
    /\ copy_pc = "off"

\* get-pages is not running
PagesOff ==
    /\ defs = FALSE
    /\ views = <<>>
    /\ page_i = 0
    /\ labels = <<>>
    /\ page_stdout = <<>>
    /\ page_stderr = <<>>
    /\ page_pc = "off"

\* lpetest-parse is not running
LpeOff ==
    /\ lpe_env = "off"
    /\ lpe_log = <<>>
    /\ log_i = 0
    /\ lpe_data = <<>>
    /\ lpe_count = 0
    /\ disk = <<>>
    /\ open_testfiles = <<>>
    /\ reads = <<>>
    /\ writes = <<>>
    /\ answers = <<>>
    /\ write_rest = <<>>
    /\ lpe_stderr = <<>>
    /\ lpe_pc = "off"

\* media-check-ui is not running
UiOff ==
    /\ ui_fn = ""
    /\ ui_doc = <<>>
    /\ ui_i = 0
    /\ chain = <<>>
    /\ objects = <<>>
    /\ obj_i = 0
    /\ ui_e = <<>>
    /\ ui_stderr = <<>>
    /\ ui_exit = <<>>
    /\ ui_pc = "off"

\* the other scripts are not running
ToolsOff == CopyOff /\ PagesOff /\ LpeOff /\ UiOff

\* The state of a run that has not started, on tree T.
Start(T) ==
    /\ tree = T
    /\ pc = "walk"
    /\ listing = {e.theme : e \in T}
    /\ name = ""
    /\ walk = {}
    /\ cur = NoDir
    /\ files = {}
    /\ data = <<>>
    /\ bad_symbolic = <<>>
    /\ bad_scalable = <<>>
    /\ all_symbolics = {}
    /\ queue = <<>>
    /\ only_found_in = <<>>
    /\ missing_from = <<>>
    /\ warn_missing_from = <<>>
    /\ symbolic_found = <<>>
    /\ scalable_found = <<>>
    /\ errors = <<>>
    /\ warnings = <<>>
    /\ stderr = <<>>
    /\ exit_code = NoExit

Init ==
    /\ \E T \in UpTo(MainUniverse, MaxEntries) : Start(T)
    /\ run = 1
    /\ prev_stderr = <<>>
    /\ prev_exit = NoExit
    /\ ToolsOff

\* The files the two-run specification draws its trees from: the plain icon
\* in the two kinds of three themes, well named, and the bare symbolic
\* directory.
TwiceUniverse ==
    UNION {
        {Ent(t, SYMBOLIC \o <<"/", "cat">>, <<>>),
         Ent(t, SYMBOLIC \o <<"/", "cat">>, <<"x">> \o SYMSVG),
         Ent(t, SCALABLE \o <<"/", "cat">>, <<"x">> \o SVG)}
        : t \in MainThemes \cup {"third"}}

InitTwice ==
    /\ \E T \in UpTo(TwiceUniverse, MaxEntries) : Start(T)
    /\ run = 1
    /\ prev_stderr = <<>>
    /\ prev_exit = NoExit
    /\ ToolsOff

\* The files the walk specification draws its trees from: the ignored theme
\* with well named and misnamed files, a regular file beside the themes, a
\* cursors directory, files directly in symbolic/ and scalable/, and
\* symbolic directories that are empty or hold only misnamed or non-.svg
\* files.
WalkUniverse ==
    {Ent("application", SYMBOLIC \o <<"/", "cat">>, <<"x">> \o SYMSVG),
     Ent("application", SYMBOLIC \o <<"/", "cat">>, <<"x">> \o SVG),
     Ent("application", SCALABLE \o <<"/", "cat">>, <<"x">> \o SYMSVG),
     Ent("README", <<>>, <<>>),
     Ent("hicolor", <<"cursors", "/", "cat">>, <<"x">> \o SYMSVG),
     Ent("hicolor", <<"cursors", "/", "cat">>, <<"x">> \o SVG),
     Ent("hicolor", SYMBOLIC \o <<"/", "cat">>, <<"x">> \o SYMSVG),
     Ent("hicolor", SYMBOLIC, <<"x">> \o SYMSVG),
     Ent("hicolor", SYMBOLIC, <<"x">> \o SVG),
     Ent("custom", SYMBOLIC \o <<"/", "cat">>, <<>>),
     Ent("custom", SYMBOLIC \o <<"/", "cat">>, <<"x">> \o SVG),
     Ent("custom", SYMBOLIC \o <<"/", "cat">>, <<"x", ".png">>),
     Ent("custom", SYMBOLIC, <<>>),
     Ent("custom", SCALABLE, <<"x">> \o SYMSVG)}

InitWalk ==
    /\ \E T \in UpTo(WalkUniverse, MaxEntries) : Start(T)
    /\ run = 1
    /\ prev_stderr = <<>>
    /\ prev_exit = NoExit
    /\ ToolsOff

\* The files the plain-icon specification draws its trees from: two icons
\* that no policy or ignore set names, in the two kinds of three themes, the
\* bare symbolic directory, and one misnamed file.
PlainUniverse ==
    UNION {
        {Ent(t, SYMBOLIC \o <<"/", "cat">>, <<>>),
         Ent(t, SYMBOLIC \o <<"/", "cat">>, <<"x">> \o SYMSVG),
         Ent(t, SYMBOLIC \o <<"/", "cat">>, <<"z">> \o SYMSVG),
         Ent(t, SCALABLE \o <<"/", "cat">>, <<"x">> \o SVG),
         Ent(t, SCALABLE \o <<"/", "cat">>, <<"z">> \o SVG)}
        : t \in MainThemes \cup {"third"}}
    \cup {Ent("hicolor", SYMBOLIC \o <<"/", "cat">>, <<"x">> \o SVG)}

InitPlain ==
    /\ \E T \in UpTo(PlainUniverse, MaxEntries) : Start(T)
    /\ run = 1
    /\ prev_stderr = <<>>
    /\ prev_exit = NoExit
    /\ ToolsOff

\* The files the directories specification draws its trees from: the plain
\* icon under the same name in two category directories and in a nested
\* one, in the two kinds of both themes, and a misnamed scalable file.
DirsUniverse ==
    UNION {
        {Ent(t, SYMBOLIC \o <<"/", "cat">>, <<"x">> \o SYMSVG),
         Ent(t, SYMBOLIC \o <<"/", "dog">>, <<"x">> \o SYMSVG),
         Ent(t, SYMBOLIC \o <<"/", "cat", "/", "sub">>, <<"x">> \o SYMSVG),
         Ent(t, SCALABLE \o <<"/", "cat">>, <<"x">> \o SVG),
         Ent(t, SCALABLE \o <<"/", "dog">>, <<"x">> \o SVG),
         Ent(t, SCALABLE \o <<"/", "cat">>, <<"x">> \o SYMSVG)}
        : t \in MainThemes}

InitDirs ==
    /\ \E T \in UpTo(DirsUniverse, MaxEntries) : Start(T)
    /\ run = 1
    /\ prev_stderr = <<>>
    /\ prev_exit = NoExit
    /\ ToolsOff

\* -------------------------------------------------------------- collect

\* defaultdict(set): data[key].add(value)
SetAdd(d, key, value) ==
    IF key \in DOMAIN d
    THEN [d EXCEPT ![key] = @ \cup {value}]
    ELSE d @@ (key :> {value})

\* a is a proper prefix of b
IsPrefix(a, b) == Len(a) < Len(b) /\ SubSeq(b, 1, Len(a)) = a

\* IsBadSymbolic testing the extension only: no .svg file is misnamed
IsBadSymbolicAnySvg(kind, fname) == kind = SYMBOLIC /\ ~EndsWith(fname, SVG)

\* A symbolic file that does not end in -symbolic.svg
IsBadSymbolic(kind, fname) == kind = SYMBOLIC /\ ~EndsWith(fname, SYMSVG)

\* IsBadScalable that finds no file misnamed
IsBadScalableNever(kind, fname) == FALSE

\* A scalable file that ends in -symbolic.svg
IsBadScalable(kind, fname) == kind = SCALABLE /\ EndsWith(fname, SYMSVG)

\* Normalized that leaves the file name as it is
NormalizedAsIs(kind, fname) == fname

\* "Make filenames consistant for comparison"
Normalized(kind, fname) ==
    IF kind = SYMBOLIC THEN Replace(fname, SYMSVG, SVG) ELSE fname

\* fname in IGNORE_ILLUSTRATIONS or fname in IGNORE_UI
IgnoredFile(fname) ==
    InNames(fname, IGNORE_ILLUSTRATIONS) \/ InNames(fname, IGNORE_UI)

\* icon_themes() yields the next name of the listing, or passes over it.
\* The listing comes in any order.
NextTheme ==
    /\ pc = "walk" /\ files = {} /\ walk = {} /\ listing # {}
    /\ \E n \in listing :
        /\ listing' = listing \ {n}
        /\ IF n \in IGNORE_THEMES \/ ~IsDir(tree, n)
           THEN UNCHANGED <<name, walk>>
           ELSE name' = n /\ walk' = DirsOf(tree, n)
    /\ UNCHANGED <<tree, pc, cur, files>>
    /\ UNCHANGED <<collectVars, queue, bucketVars, resultVars, outVars, runVars>>
    /\ UNCHANGED toolVars

\* WalkDir that reads the kind directory itself too
WalkDirKindItself ==
    /\ pc = "walk" /\ files = {} /\ walk # {}
    /\ \E rel \in walk :
        /\ \A r \in walk \ {rel} : ~IsPrefix(r, rel)
        /\ walk' = walk \ {rel}
        /\ LET path == PathJoin(THEME_PATH, <<name>>)
               orig == IF rel = <<>> THEN path ELSE PathJoin(path, rel)
               root0 == SubSeq(orig, Len(path) + 2, Len(orig))
           IN  IF root0 = <<>>
               THEN UNCHANGED <<cur, files, all_symbolics>>
               ELSE LET kind == IF Contains(root0, "/")
                                THEN SplitFirst(root0)[1] ELSE root0
                        root == IF Contains(root0, "/")
                                THEN SplitFirst(root0)[2] ELSE <<>>
                    IN  IF kind \notin {SYMBOLIC, SCALABLE}
                        THEN UNCHANGED <<cur, files, all_symbolics>>
                        ELSE /\ cur' = [orig |-> orig, kind |-> kind, root |-> root]
                             /\ all_symbolics' =
                                    IF kind = SYMBOLIC
                                    THEN all_symbolics \cup {name}
                                    ELSE all_symbolics
                             /\ files' = FilesOf(tree, name, rel)
    /\ UNCHANGED <<tree, pc, listing, name>>
    /\ UNCHANGED <<data, bad_symbolic, bad_scalable>>
    /\ UNCHANGED <<queue, bucketVars, resultVars, outVars, runVars>>
    /\ UNCHANGED toolVars

\* WalkDir that reads the directories of every kind
WalkDirAnyKind ==
    /\ pc = "walk" /\ files = {} /\ walk # {}
    /\ \E rel \in walk :
        /\ \A r \in walk \ {rel} : ~IsPrefix(r, rel)
        /\ walk' = walk \ {rel}
        /\ LET path == PathJoin(THEME_PATH, <<name>>)
               orig == IF rel = <<>> THEN path ELSE PathJoin(path, rel)
               root0 == SubSeq(orig, Len(path) + 2, Len(orig))
           IN  IF ~Contains(root0, "/")
               THEN UNCHANGED <<cur, files, all_symbolics>>
               ELSE LET kind == SplitFirst(root0)[1]
                        root == SplitFirst(root0)[2]
                    IN  /\ cur' = [orig |-> orig, kind |-> kind, root |-> root]
                        /\ all_symbolics' =
                               IF kind = SYMBOLIC
                               THEN all_symbolics \cup {name}
                               ELSE all_symbolics
                        /\ files' = FilesOf(tree, name, rel)
    /\ UNCHANGED <<tree, pc, listing, name>>
    /\ UNCHANGED <<data, bad_symbolic, bad_scalable>>
    /\ UNCHANGED <<queue, bucketVars, resultVars, outVars, runVars>>
    /\ UNCHANGED toolVars

\* os.walk(path) yields the next directory, a directory before the ones
\* below it; the head of the loop body decides whether its files are read.
WalkDir ==
    /\ pc = "walk" /\ files = {} /\ walk # {}
    /\ \E rel \in walk :
        /\ \A r \in walk \ {rel} : ~IsPrefix(r, rel)
        /\ walk' = walk \ {rel}
        /\ LET path == PathJoin(THEME_PATH, <<name>>)
               orig == IF rel = <<>> THEN path ELSE PathJoin(path, rel)
               root0 == SubSeq(orig, Len(path) + 2, Len(orig))
           IN  IF ~Contains(root0, "/")
               THEN UNCHANGED <<cur, files, all_symbolics>>
               ELSE LET kind == SplitFirst(root0)[1]
                        root == SplitFirst(root0)[2]
                    IN  IF kind \notin {SYMBOLIC, SCALABLE}
                        THEN UNCHANGED <<cur, files, all_symbolics>>
                        ELSE /\ cur' = [orig |-> orig, kind |-> kind, root |-> root]
                             /\ all_symbolics' =
                                    IF kind = SYMBOLIC
                                    THEN all_symbolics \cup {name}
                                    ELSE all_symbolics
                             /\ files' = FilesOf(tree, name, rel)
    /\ UNCHANGED <<tree, pc, listing, name>>
    /\ UNCHANGED <<data, bad_symbolic, bad_scalable>>
    /\ UNCHANGED <<queue, bucketVars, resultVars, outVars, runVars>>
    /\ UNCHANGED toolVars

\* ScanFile that throws at the first misnamed file: the run ends there with
\* status 5
ScanFileFailFast ==
    /\ pc = "walk" /\ files # {}
    /\ \E fname \in files :
        /\ files' = files \ {fname}
        /\ IF ~EndsWith(fname, SVG)
           THEN UNCHANGED <<data, bad_symbolic, bad_scalable, pc, exit_code>>
           ELSE IF IsBadSymbolic(cur.kind, fname)
           THEN /\ bad_symbolic' = Append(bad_symbolic, PathJoin(cur.orig, fname))
                /\ pc' = "done" /\ exit_code' = <<5>>
                /\ UNCHANGED <<data, bad_scalable>>
           ELSE IF IsBadScalable(cur.kind, fname)
           THEN /\ bad_scalable' = Append(bad_scalable, PathJoin(cur.orig, fname))
                /\ pc' = "done" /\ exit_code' = <<5>>
                /\ UNCHANGED <<data, bad_symbolic>>
           ELSE IF IgnoredFile(Normalized(cur.kind, fname))
           THEN UNCHANGED <<data, bad_symbolic, bad_scalable, pc, exit_code>>
           ELSE /\ data' = SetAdd(data,
                                  PathJoin(cur.root, Normalized(cur.kind, fname)),
                                  <<name, cur.kind>>)
                /\ UNCHANGED <<bad_symbolic, bad_scalable, pc, exit_code>>
    /\ UNCHANGED <<tree, listing, name, walk, cur, all_symbolics>>
    /\ UNCHANGED <<queue, bucketVars, resultVars, stderr, runVars>>
    /\ UNCHANGED toolVars

\* The body of "for fname in files", for one file of the directory.
ScanFile ==
    /\ pc = "walk" /\ files # {}
    /\ \E fname \in files :
        /\ files' = files \ {fname}
        /\ IF ~EndsWith(fname, SVG)
           THEN UNCHANGED <<data, bad_symbolic, bad_scalable>>
           ELSE IF IsBadSymbolic(cur.kind, fname)
           THEN /\ bad_symbolic' = Append(bad_symbolic, PathJoin(cur.orig, fname))
                /\ UNCHANGED <<data, bad_scalable>>
           ELSE IF IsBadScalable(cur.kind, fname)
           THEN /\ bad_scalable' = Append(bad_scalable, PathJoin(cur.orig, fname))
                /\ UNCHANGED <<data, bad_symbolic>>
           ELSE IF IgnoredFile(Normalized(cur.kind, fname))
           THEN UNCHANGED <<data, bad_symbolic, bad_scalable>>
           ELSE /\ data' = SetAdd(data,
                                  PathJoin(cur.root, Normalized(cur.kind, fname)),
                                  <<name, cur.kind>>)
                /\ UNCHANGED <<bad_symbolic, bad_scalable>>
    /\ UNCHANGED <<tree, pc, listing, name, walk, cur, all_symbolics>>
    /\ UNCHANGED <<queue, bucketVars, resultVars, outVars, runVars>>
    /\ UNCHANGED toolVars

\* An entry of errors or warnings: (category, list) or (category, dict)
ListEntry(cat, items) == [cat |-> cat, isdict |-> FALSE, list |-> items, dict |-> <<>>]
DictEntry(cat, d) == [cat |-> cat, isdict |-> TRUE, list |-> <<>>, dict |-> d]

\* The walk is over: the naming violations go to errors, and the icons are
\* sorted for the classification.  The locals of the walk are dead from here.
EndWalk ==
    /\ pc = "walk" /\ files = {} /\ walk = {} /\ listing = {}
    /\ errors' = (IF bad_symbolic # <<>>
                  THEN <<ListEntry(BAD_SYMBOLIC_NAME, bad_symbolic)>> ELSE <<>>)
                 \o (IF bad_scalable # <<>>
                     THEN <<ListEntry(BAD_SCALABLE_NAME, bad_scalable)>> ELSE <<>>)
    /\ queue' = Sorted(DOMAIN data)
    /\ name' = ""
    /\ cur' = NoDir
    /\ pc' = "classify"
    /\ UNCHANGED <<tree, listing, walk, files, collectVars, bucketVars,
                   warnings, outVars, runVars>>
    /\ UNCHANGED toolVars

\* ------------------------------------------------------------- classify

\* A dict of lists that keeps the order in which its keys were first set:
\* a sequence of [key, items].  d[key].append(item) of a defaultdict(list).
DictAppend(d, key, item) ==
    IF \E i \in 1..Len(d) : d[i].key = key
    THEN [i \in 1..Len(d) |->
             IF d[i].key = key
             THEN [key |-> key, items |-> Append(d[i].items, item)]
             ELSE d[i]]
    ELSE Append(d, [key |-> key, items |-> <<item>>])

\* for key in keys: d[key].append(item)
RECURSIVE DictAppendAll(_, _, _)
DictAppendAll(d, keys, item) ==
    IF keys = <<>> THEN d
    ELSE DictAppendAll(DictAppend(d, Head(keys), item), Tail(keys), item)

DictKeys(d) == {d[i].key : i \in 1..Len(d)}

\* d[key] read without setting it
DictItems(d, key) ==
    IF \E i \in 1..Len(d) : d[i].key = key
    THEN d[CHOOSE i \in 1..Len(d) : d[i].key = key].items
    ELSE <<>>

\* theme_to_string with the kind first
theme_to_string_kind_first(theme, kind) == kind \o <<"-", theme>>

theme_to_string(theme, kind) == <<theme, "-">> \o kind

Symbolics(datum) == {p[1] : p \in {q \in datum : q[2] = SYMBOLIC}}
Scalables(datum) == {p[1] : p \in {q \in datum : q[2] = SCALABLE}}

\* filename.split("/")[-1].replace(".svg", "")
ShortName(filename) == Replace(LastSegment(filename), SVG, <<>>)

\* IsScalableOnly looking the name up in the other policy set
IsScalableOnlyWrongSet(short_name) == InNames(short_name, SYMBOLIC_ONLY_ICONS)

IsScalableOnly(short_name) == InNames(short_name, SCALABLE_ONLY_ICONS)

\* IsSymbolicOnly looking the name up in the other policy set
IsSymbolicOnlyWrongSet(short_name) == InNames(short_name, SCALABLE_ONLY_ICONS)

IsSymbolicOnly(short_name) == InNames(short_name, SYMBOLIC_ONLY_ICONS)

\* IsSkipped that skips nothing
IsSkippedNever(short_name) == FALSE

\* IsSkipped without the two policy sets: an icon of a policy goes on to the
\* checks of the plain icons
IsSkippedIgnoreOnly(short_name) ==
    \/ InNames(short_name, IGNORE_ILLUSTRATIONS)
    \/ InNames(short_name, IGNORE_UI)

\* IsSkipped without the two ignore sets
IsSkippedPolicyOnly(short_name) ==
    InNames(short_name, SCALABLE_ONLY_ICONS \cup SYMBOLIC_ONLY_ICONS)

\* "Ignore a bunch of hard coded things"
IsSkipped(short_name) ==
    InNames(short_name, SCALABLE_ONLY_ICONS \cup SYMBOLIC_ONLY_ICONS
                            \cup IGNORE_ILLUSTRATIONS \cup IGNORE_UI)

\* Diff that finds every scalable with its symbolic
DiffEmpty(scalables, symbolics) == {}

\* Diff that never asks the fallback theme for a symbolic file
DiffFallbackExempt(scalables, symbolics) == (scalables \ symbolics) \ {FALLBACK_THEME}

\* Diff with its operands exchanged
DiffReversed(scalables, symbolics) == symbolics \ scalables

\* "For every scalable, there must be a symbolic"
Diff(scalables, symbolics) == scalables \ symbolics

\* PresentInAll that always asks for the fallback theme
PresentInAllWithFallback(symbolics, all) == symbolics = all \cup {FALLBACK_THEME}

\* PresentInAll with inclusion for equality
PresentInAllSubset(symbolics, all) == symbolics \subseteq all

\* "Icon present in all themes => no error"
PresentInAll(symbolics, all) == symbolics = all

\* InFallback that takes any theme for the fallback
InFallbackAny(symbolics) == symbolics # {}

\* "Icon present in fallback theme"
InFallback(symbolics) == FALLBACK_THEME \in symbolics

\* SymbolicKeys naming the kind the icon was found in
SymbolicKeysScalable(order) == [i \in 1..Len(order) |-> <<order[i], "-", "scalable">>]

\* The keys a loop over a set of theme names sets, in the order of the loop
SymbolicKeys(order) == [i \in 1..Len(order) |-> <<order[i], "-", "symbolic">>]
ThemeKeys(order) == [i \in 1..Len(order) |-> <<order[i]>>]

\* The body of "for filename in sorted(data)", for the next icon.  A set of
\* theme names is iterated in any order.
Classify ==
    /\ pc = "classify" /\ queue # <<>>
    /\ LET filename == Head(queue)
           datum == data[filename]
           symbolics == Symbolics(datum)
           scalables == Scalables(datum)
           short_name == ShortName(filename)
           diff == Diff(scalables, symbolics)
       IN  /\ queue' = Tail(queue)
           /\ \E so \in Orders(symbolics), sc \in Orders(scalables) :
                /\ symbolic_found' =
                       IF IsScalableOnly(short_name)
                       THEN DictAppendAll(symbolic_found, ThemeKeys(so), filename)
                       ELSE symbolic_found
                /\ scalable_found' =
                       IF IsSymbolicOnly(short_name)
                       THEN DictAppendAll(scalable_found, ThemeKeys(sc), filename)
                       ELSE scalable_found
           /\ \E df \in Orders(diff), ms \in Orders(all_symbolics \ symbolics) :
                IF IsSkipped(short_name)
                THEN UNCHANGED <<missing_from, warn_missing_from, only_found_in>>
                ELSE IF Cardinality(diff) > 0
                THEN /\ missing_from' =
                            DictAppendAll(missing_from, SymbolicKeys(df), filename)
                     /\ UNCHANGED <<warn_missing_from, only_found_in>>
                ELSE IF PresentInAll(symbolics, all_symbolics)
                THEN UNCHANGED <<missing_from, warn_missing_from, only_found_in>>
                ELSE IF InFallback(symbolics)
                THEN /\ warn_missing_from' =
                            DictAppendAll(warn_missing_from, ThemeKeys(ms), filename)
                     /\ UNCHANGED <<missing_from, only_found_in>>
                ELSE IF Cardinality(datum) = 1
                THEN /\ only_found_in' =
                            LET only == CHOOSE p \in datum : TRUE
                            IN  DictAppend(only_found_in,
                                           theme_to_string(only[1], only[2]),
                                           filename)
                     /\ UNCHANGED <<missing_from, warn_missing_from>>
                ELSE /\ missing_from' =
                            DictAppend(missing_from, <<FALLBACK_THEME>>, filename)
                     /\ UNCHANGED <<warn_missing_from, only_found_in>>
    /\ UNCHANGED <<tree, pc, walkVars, collectVars, resultVars, outVars, runVars>>
    /\ UNCHANGED toolVars

\* Collated without the ONLY_FOUND_IN entry
CollatedNoOnlyFoundIn(errs, only, missing, symfound, scalfound) ==
    errs
    \o (IF missing # <<>> THEN <<DictEntry(MISSING_FROM, missing)>> ELSE <<>>)
    \o (IF symfound # <<>> THEN <<DictEntry(SCALABLE_ONLY, symfound)>> ELSE <<>>)
    \o (IF scalfound # <<>> THEN <<DictEntry(SYMBOLIC_ONLY, scalfound)>> ELSE <<>>)

\* The non-empty buckets become entries of errors and warnings, and
\* find_errors_in returns.
Collated(errs, only, missing, symfound, scalfound) ==
    errs
    \o (IF only # <<>> THEN <<DictEntry(ONLY_FOUND_IN, only)>> ELSE <<>>)
    \o (IF missing # <<>> THEN <<DictEntry(MISSING_FROM, missing)>> ELSE <<>>)
    \o (IF symfound # <<>> THEN <<DictEntry(SCALABLE_ONLY, symfound)>> ELSE <<>>)
    \o (IF scalfound # <<>> THEN <<DictEntry(SYMBOLIC_ONLY, scalfound)>> ELSE <<>>)

Collate ==
    /\ pc = "classify" /\ queue = <<>>
    /\ errors' = Collated(errors, only_found_in, missing_from,
                          symbolic_found, scalable_found)
    /\ warnings' = IF warn_missing_from # <<>>
                   THEN <<DictEntry(MISSING_FROM, warn_missing_from)>>
                   ELSE <<>>
    /\ pc' = "report"
    /\ UNCHANGED <<tree, walkVars, collectVars, queue, bucketVars, outVars, runVars>>
    /\ UNCHANGED toolVars

\* --------------------------------------------------------------- report

\* A line written to stderr: what it says (k), the theme or path in it, and
\* the count in it.
Line(k, text, n) == [k |-> k, text |-> text, n |-> n]

Blank == Line("", <<>>, 0)

RECURSIVE SumLen(_)
SumLen(d) == IF d = <<>> THEN 0 ELSE Len(Head(d).items) + SumLen(Tail(d))

\* ErrorCount counting the keys of a dict, not the items under them
RECURSIVE ErrorCountKeys(_)
ErrorCountKeys(errs) ==
    IF errs = <<>> THEN 0
    ELSE (IF Head(errs).isdict THEN Len(Head(errs).dict) ELSE Len(Head(errs).list))
         + ErrorCountKeys(Tail(errs))

\* count += len(themes), or the sum of the lengths of themes.values()
RECURSIVE ErrorCount(_)
ErrorCount(errs) ==
    IF errs = <<>> THEN 0
    ELSE (IF Head(errs).isdict THEN SumLen(Head(errs).dict) ELSE Len(Head(errs).list))
         + ErrorCount(Tail(errs))

ItemLines(mark, items) == [i \in 1..Len(items) |-> Line(mark, items[i], 0)]

\* the sections of a dict, one per key in the order of the dict
RECURSIVE DictLines(_, _, _)
DictLines(head, mark, d) ==
    IF d = <<>> THEN <<>>
    ELSE <<Line(head, Head(d).key, 0)>> \o ItemLines(mark, Head(d).items)
         \o <<Blank>> \o DictLines(head, mark, Tail(d))

\* name.replace(".svg", "-symbolic.svg") of every item of every list
SymbolicForm(d) ==
    [i \in 1..Len(d) |->
        [key |-> d[i].key,
         items |-> [j \in 1..Len(d[i].items) |->
                       Replace(d[i].items[j], SVG, SYMSVG)]]]

ErrorLines(e) ==
    IF e.cat = BAD_SCALABLE_NAME
    THEN <<Line("Scalable themes should not have symbolic icons in them", <<>>, 0)>>
         \o ItemLines("-", e.list) \o <<Blank>>
    ELSE IF e.cat = BAD_SYMBOLIC_NAME
    THEN <<Line("Symbolic themes should only have symbolic icons in them", <<>>, 0)>>
         \o ItemLines("-", e.list) \o <<Blank>>
    ELSE IF e.cat = MISSING_FROM
    THEN DictLines("Icons missing from", "-", e.dict)
    ELSE IF e.cat = ONLY_FOUND_IN
    THEN DictLines("Icons only found in", "+", e.dict)
    ELSE IF e.cat = SCALABLE_ONLY
    THEN DictLines("Icons should be scalable ONLY, remove from", "-",
                   SymbolicForm(e.dict))
    ELSE IF e.cat = SYMBOLIC_ONLY
    THEN DictLines("Icons should be symbolic ONLY, remove from", "-", e.dict)
    ELSE <<>>

RECURSIVE AllErrorLines(_)
AllErrorLines(errs) ==
    IF errs = <<>> THEN <<>>
    ELSE ErrorLines(Head(errs)) \o AllErrorLines(Tail(errs))

WarningLines(w) ==
    IF w.cat = MISSING_FROM THEN DictLines("Icons missing from", "-", w.dict)
    ELSE <<>>

RECURSIVE AllWarningLines(_)
AllWarningLines(ws) ==
    IF ws = <<>> THEN <<>>
    ELSE WarningLines(Head(ws)) \o AllWarningLines(Tail(ws))

\* "if errors:" and the errors section
ReportErrors ==
    /\ pc = "report"
    /\ stderr' = IF errors # <<>>
                 THEN stderr
                      \o <<Line("errors found in icon themes!", <<>>, ErrorCount(errors)),
                           Blank>>
                      \o AllErrorLines(errors)
                 ELSE stderr
    /\ pc' = "warn"
    /\ UNCHANGED <<tree, walkVars, collectVars, queue, bucketVars, resultVars,
                   exit_code, runVars>>
    /\ UNCHANGED toolVars

\* "if warnings:" and the warnings section
ReportWarnings ==
    /\ pc = "warn"
    /\ stderr' = IF warnings # <<>>
                 THEN stderr
                      \o <<Line("warnings found in icon themes", <<>>, ErrorCount(warnings)),
                           Blank>>
                      \o AllWarningLines(warnings)
                 ELSE stderr
    /\ pc' = "exit"
    /\ UNCHANGED <<tree, walkVars, collectVars, queue, bucketVars, resultVars,
                   exit_code, runVars>>
    /\ UNCHANGED toolVars

\* "if errors: sys.exit(5)", or the end of the script
ExitStatus(errs) == IF errs # <<>> THEN 5 ELSE 0

Exit ==
    /\ pc = "exit"
    /\ exit_code' = <<ExitStatus(errors)>>
    /\ pc' = "done"
    /\ UNCHANGED <<tree, walkVars, collectVars, queue, bucketVars, resultVars,
                   stderr, runVars>>
    /\ UNCHANGED toolVars

\* The checker is started again on the unchanged tree; what the first run
\* printed and returned is kept to compare.
Rerun ==
    /\ pc = "done" /\ run = 1
    /\ run' = 2
    /\ prev_stderr' = stderr
    /\ prev_exit' = exit_code
    /\ tree' = tree
    /\ pc' = "walk"
    /\ listing' = {e.theme : e \in tree}
    /\ name' = ""
    /\ walk' = {}
    /\ cur' = NoDir
    /\ files' = {}
    /\ data' = <<>>
    /\ bad_symbolic' = <<>>
    /\ bad_scalable' = <<>>
    /\ all_symbolics' = {}
    /\ queue' = <<>>
    /\ only_found_in' = <<>>
    /\ missing_from' = <<>>
    /\ warn_missing_from' = <<>>
    /\ symbolic_found' = <<>>
    /\ scalable_found' = <<>>
    /\ errors' = <<>>
    /\ warnings' = <<>>
    /\ stderr' = <<>>
    /\ exit_code' = NoExit
    /\ UNCHANGED toolVars

\* -------------------------------------------------------- specifications

Next ==
    \/ NextTheme
    \/ WalkDir
    \/ ScanFile
    \/ EndWalk
    \/ Classify
    \/ Collate
    \/ ReportErrors
    \/ ReportWarnings
    \/ Exit

Spec == Init /\ [][Next]_vars

\* The checker run twice on the same tree.
NextTwice == Next \/ Rerun

SpecTwice == InitTwice /\ [][NextTwice]_vars

\* The checker on the trees of the walk
SpecWalk == InitWalk /\ [][Next]_vars

\* The checker on the trees of the plain icons
SpecPlain == InitPlain /\ [][Next]_vars

\* The checker on the trees of the category directories
SpecDirs == InitDirs /\ [][Next]_vars

\* ------------------------------------------------------------ copylibs.py

\* the icon checker is not running
IconsOff ==
    /\ Start({})
    /\ run = 1
    /\ prev_stderr = <<>>
    /\ prev_exit = NoExit

None == <<>>

\* A DT_NEEDED tag of the file at path, naming the library needed; k tells
\* apart two tags of one file that name the same library
Tag(path, needed, k) == [path |-> path, needed |-> needed, k |-> k]

LibNames == {"a.so", "b.so"}

\* where find_libs finds the library, when it does
LibPath(lib) == <<"lib", lib>>

InputPaths == <<<<"bin", "f">>, <<"bin", "g">>>>

\* the tags the copylibs specification draws its files from
TagUniverse ==
    {Tag(p, n, k) : p \in {InputPaths[i] : i \in 1..Len(InputPaths)}
                           \cup {LibPath(l) : l \in LibNames},
                    n \in LibNames, k \in {"first", "second"}}

MaxTags == 3

\* main() up to "needed_libs = []": the arguments are parsed and find_libs
\* has found some of the libraries
InitCopylibs ==
    /\ IconsOff /\ PagesOff /\ LpeOff /\ UiOff
    /\ \E T \in UpTo(TagUniverse, MaxTags) : dynamic = T
    /\ \E F \in SUBSET LibNames : all_libs = [l \in F |-> LibPath(l)]
    /\ \E n \in 1..Len(InputPaths) : args_file = SubSeq(InputPaths, 1, n)
    /\ file_rest = args_file
    /\ frames = <<>>
    /\ needed_libs = <<>>
    /\ args_out = <<>>
    /\ out_rest = <<>>
    /\ stdout = <<>>
    /\ outputdir = {}
    /\ copy_pc = "files"

\* get_imported_libs(path): the libraries the tags of the file name, in the
\* order of the tags in the file, which is any order here
get_imported_libs(path) ==
    {[i \in 1..Len(o) |-> o[i].needed] :
        o \in Orders({t \in dynamic : t.path = path})}

\* Loc that finds no library
LocNowhere(lib) == None

\* all_libs.get(lib)
Loc(lib) == IF lib \in DOMAIN all_libs THEN all_libs[lib] ELSE None

\* lib in imported_libs
Imported(lib, imported_libs) ==
    \E i \in 1..Len(imported_libs) : imported_libs[i] = lib

\* the calls in progress, the innermost one having taken the library it was at
Advanced == [frames EXCEPT ![Len(frames)].rest = Tail(@)]

\* "for f in args.file: get_imported_libs_recursive(f, all_libs, needed_libs)"
CallImported ==
    /\ copy_pc = "files" /\ frames = <<>> /\ file_rest # <<>>
    /\ \E libs \in get_imported_libs(Head(file_rest)) :
           frames' = <<[path |-> Head(file_rest), rest |-> libs]>>
    /\ file_rest' = Tail(file_rest)
    /\ UNCHANGED <<dynamic, all_libs, args_file, needed_libs, args_out, out_rest, stdout,
                   outputdir, copy_pc>>
    /\ UNCHANGED <<iconVars, pageVars, lpeVars, uiVars>>

\* one turn of the loop of get_imported_libs_recursive
ImportLib ==
    /\ copy_pc = "files" /\ frames # <<>> /\ frames[Len(frames)].rest # <<>>
    /\ LET lib == Head(frames[Len(frames)].rest)
       IN  IF Imported(lib, needed_libs)
           THEN /\ frames' = Advanced
                /\ UNCHANGED needed_libs
           ELSE /\ needed_libs' = Append(needed_libs, lib)
                /\ IF Loc(lib) # None
                   THEN \E libs \in get_imported_libs(Loc(lib)) :
                            frames' = Append(Advanced,
                                             [path |-> Loc(lib), rest |-> libs])
                   ELSE frames' = Advanced
    /\ UNCHANGED <<dynamic, all_libs, args_file, file_rest, args_out, out_rest,
                   stdout, outputdir, copy_pc>>
    /\ UNCHANGED <<iconVars, pageVars, lpeVars, uiVars>>

\* the loop of get_imported_libs_recursive is over: the call returns
ReturnImported ==
    /\ copy_pc = "files" /\ frames # <<>> /\ frames[Len(frames)].rest = <<>>
    /\ frames' = SubSeq(frames, 1, Len(frames) - 1)
    /\ UNCHANGED <<dynamic, all_libs, args_file, file_rest, needed_libs, args_out,
                   out_rest, stdout, outputdir, copy_pc>>
    /\ UNCHANGED <<iconVars, pageVars, lpeVars, uiVars>>

\* args.outputdir and args.link: no output directory, or one to copy or to
\* link into
OutputArgs ==
    {[outputdir |-> d, link |-> l] :
        d \in {None, <<"out">>}, l \in BOOLEAN}

\* "for lib in needed_libs:" begins; args.outputdir and args.link are read
\* here first
BeginOutput ==
    /\ copy_pc = "files" /\ frames = <<>> /\ file_rest = <<>>
    /\ \E a \in OutputArgs : args_out' = a
    /\ out_rest' = needed_libs
    /\ copy_pc' = "output"
    /\ UNCHANGED <<dynamic, all_libs, args_file, file_rest, frames, needed_libs,
                   stdout, outputdir>>
    /\ UNCHANGED <<iconVars, pageVars, lpeVars, uiVars>>

\* one needed library is printed with its location, and copied or linked
OutputLib ==
    /\ copy_pc = "output" /\ out_rest # <<>>
    /\ LET lib == Head(out_rest)
           loc == Loc(lib)
       IN  /\ stdout' = Append(stdout, <<lib, loc>>)
           /\ outputdir' =
                  IF loc # None /\ args_out.outputdir # None
                  THEN outputdir \cup {<<lib, IF args_out.link THEN "symlink" ELSE "copy">>}
                  ELSE outputdir
    /\ out_rest' = Tail(out_rest)
    /\ UNCHANGED <<dynamic, all_libs, args_file, file_rest, frames, needed_libs,
                   args_out, copy_pc>>
    /\ UNCHANGED <<iconVars, pageVars, lpeVars, uiVars>>

\* main returns
EndCopylibs ==
    /\ copy_pc = "output" /\ out_rest = <<>>
    /\ copy_pc' = "done"
    /\ UNCHANGED <<dynamic, all_libs, args_file, file_rest, frames, needed_libs,
                   args_out, out_rest, stdout, outputdir>>
    /\ UNCHANGED <<iconVars, pageVars, lpeVars, uiVars>>

NextCopylibs ==
    \/ CallImported
    \/ ImportLib
    \/ ReturnImported
    \/ BeginOutput
    \/ OutputLib
    \/ EndCopylibs

\* copylibs runs to its end: no step of it waits for anything
SpecCopylibs == InitCopylibs /\ [][NextCopylibs]_vars /\ WF_vars(NextCopylibs)

\* --------------------------------------------------------- get-pages.py

\* A label is the sequence of its characters; "eacute" is a character
\* outside ASCII, and "badpage", "BadPage" and "page" stand for the
\* characters they spell.

\* str(n)
Str(n) == <<"0", "1", "2", "3", "4">>[n + 1]

\* f"badpage{i+1}"
badpage(i) == <<"badpage", Str(i + 1)>>

\* the values of inkscape:label in the files
InkLabels ==
    {<<>>, <<" ">>, <<"a">>, <<"A", " ">>, <<"a", "_", "eacute">>, <<";">>,
     <<"BadPage", "2">>}

\* the values of label in the files
PlainLabels == {<<"a">>, <<" ">>}

\* the attributes a <view can have in the files (line 35 builds the dict)
AttrsUniverse ==
    {<<>>}
    \cup {[k \in {"inkscape:label"} |-> l] : l \in InkLabels}
    \cup {[k \in {"label"} |-> l] : l \in PlainLabels}
    \cup {[k \in {"inkscape:label", "label"} |->
              IF k = "label" THEN m ELSE l] : l \in InkLabels, m \in PlainLabels}

MaxPages == 2

\* a file has been read up to </defs> and split on "<view"
InitPages ==
    /\ IconsOff /\ CopyOff /\ LpeOff /\ UiOff
    /\ defs \in BOOLEAN
    /\ \E n \in 0..MaxPages : views \in [1..n -> AttrsUniverse]
    /\ (~defs => views = <<>>)
    /\ page_i = 0
    /\ labels = <<>>
    /\ page_stdout = <<>>
    /\ page_stderr = <<>>
    /\ page_pc = "parsed"

\* attrs.get("inkscape:label", attrs.get("label", f"badpage{i+1}"))
LabelOf(attrs, i) ==
    IF "inkscape:label" \in DOMAIN attrs THEN attrs["inkscape:label"]
    ELSE IF "label" \in DOMAIN attrs THEN attrs["label"]
    ELSE badpage(i)

\* encode('ascii', 'replace').decode("ascii") of one character
Encoded(c) == IF c = "eacute" THEN "?" ELSE c

\* lower() of one character
Lower(c) == IF c = "A" THEN "a" ELSE IF c = "BadPage" THEN "badpage" ELSE c

RECURSIVE LStrip(_)
LStrip(label) ==
    IF label # <<>> /\ Head(label) = " " THEN LStrip(Tail(label)) ELSE label

RECURSIVE RStrip(_)
RStrip(label) ==
    IF label # <<>> /\ label[Len(label)] = " "
    THEN RStrip(SubSeq(label, 1, Len(label) - 1))
    ELSE label

\* strip()
Strip(label) == RStrip(LStrip(label))

\* replace(" ", "-").replace("_", "-").replace(";", "-") of one character
Dashed(c) == IF c \in {" ", "_", ";"} THEN "-" ELSE c

\* lines 37-38
Cleaned(label) ==
    LET low == Strip([i \in 1..Len(label) |-> Lower(Encoded(label[i]))])
    IN  [i \in 1..Len(low) |-> Dashed(low[i])]

\* label in labels
InLabels(label, ls) == \E i \in 1..Len(ls) : ls[i] = label

\* ";".join(ls)
RECURSIVE JoinSemicolon(_)
JoinSemicolon(ls) ==
    IF ls = <<>> THEN <<>>
    ELSE IF Len(ls) = 1 THEN ls[1]
    ELSE ls[1] \o <<";">> \o JoinSemicolon(Tail(ls))

\* if not parse: return
ReturnNoDefs ==
    /\ page_pc = "parsed" /\ ~defs
    /\ page_pc' = "done"
    /\ UNCHANGED <<defs, views, page_i, labels, page_stdout, page_stderr>>
    /\ UNCHANGED <<iconVars, copyVars, lpeVars, uiVars>>

\* labels = []
BeginPages ==
    /\ page_pc = "parsed" /\ defs
    /\ page_pc' = "pages"
    /\ UNCHANGED <<defs, views, page_i, labels, page_stdout, page_stderr>>
    /\ UNCHANGED <<iconVars, copyVars, lpeVars, uiVars>>

\* one pass of the loop over parse[1:]
PageLabel ==
    /\ page_pc = "pages" /\ page_i < Len(views)
    /\ LET label == Cleaned(LabelOf(views[page_i + 1], page_i))
       IN  labels' = Append(labels,
                            IF InLabels(label, labels) \/ label = <<>>
                            THEN badpage(page_i)
                            ELSE label)
    /\ page_i' = page_i + 1
    /\ UNCHANGED <<defs, views, page_stdout, page_stderr, page_pc>>
    /\ UNCHANGED <<iconVars, copyVars, lpeVars, uiVars>>

\* lines 43-47
WritePages ==
    /\ page_pc = "pages" /\ page_i = Len(views)
    /\ labels' = IF labels = <<>> THEN <<<<"page", "0">>>> ELSE labels
    /\ page_stderr' = JoinSemicolon([i \in 1..Len(labels') |-> <<Str(i - 1)>>])
    /\ page_stdout' = JoinSemicolon(labels')
    /\ page_pc' = "done"
    /\ UNCHANGED <<defs, views, page_i>>
    /\ UNCHANGED <<iconVars, copyVars, lpeVars, uiVars>>

NextPages == ReturnNoDefs \/ BeginPages \/ PageLabel \/ WritePages

SpecPages == InitPages /\ [][NextPages]_vars

\* ----------------------------------------------------- lpetest-parse.py

\* args.inkscape, the project root
ProjectRoot == <<"root">>

\* the contents of a reference file: the d attribute of the path of each id
Contents0 == [id \in {"p1", "p2"} |-> <<"D0">>]

\* the reference files on disk before the run
Disk0 ==
    [n \in {ProjectRoot \o <<"testfiles", "x.svg">>,
            ProjectRoot \o <<"testfiles", "y.svg">>} |-> Contents0]

\* the values of the svg tag in the logs
SvgValues ==
    {<<"build", "testfiles", "x.svg">>, <<"testfiles", "x.svg">>,
     <<"testfiles", "y.svg">>, <<"testfiles", "w.svg">>, <<"tmp", "z.svg">>}

\* the values of the id tag in the logs: the id and what follows it from
\* the first "(" on
IdValues == {<<"p1", "">>, <<"p2", "(0)">>, <<"p9", "">>}

\* the value of the b tag of the k-th failure of the logs
NewPath(k) == <<<<"B1">>, <<"B2">>, <<"B3">>, <<"B4">>>>[k]

Entry(tag, value) == [tag |-> tag, value |-> value]

\* the pairs of the k-th failure of a log: svg and id may be left out
Failures(k) ==
    {s \o i \o <<Entry("a", <<"A">>), Entry("b", NewPath(k))>> :
        s \in {<<>>} \cup {<<Entry("svg", v)>> : v \in SvgValues},
        i \in {<<>>} \cup {<<Entry("id", v)>> : v \in IdValues}}

MaxFailures == 2

RECURSIVE Logs(_)
Logs(k) ==
    IF k = 0 THEN {<<>>}
    ELSE LET P == Logs(k - 1)
         IN  P \cup {l \o f : l \in {m \in P : Len(m) > 0 \/ k = 1},
                              f \in Failures(k)}

\* lpetest-parse has been started
InitLpe ==
    /\ IconsOff /\ CopyOff /\ PagesOff /\ UiOff
    /\ lpe_env \in {"ok", "no .git", "no log"}
    /\ lpe_log \in Logs(MaxFailures)
    /\ (lpe_env # "ok" => lpe_log = <<>>)
    /\ log_i = 0
    /\ lpe_data = <<>>
    /\ lpe_count = 0
    /\ disk = Disk0
    /\ open_testfiles = <<>>
    /\ reads = <<>>
    /\ writes = <<>>
    /\ answers = <<>>
    /\ write_rest = <<>>
    /\ lpe_stderr = <<>>
    /\ lpe_pc = "start"

\* sys.exit(-1) without .git, sys.exit(-2) without the log
CheckProject ==
    /\ lpe_pc = "start"
    /\ IF lpe_env = "no .git"
       THEN lpe_pc' = "exit -1" /\ lpe_stderr' = <<"Project not found">>
       ELSE IF lpe_env = "no log"
       THEN lpe_pc' = "exit -2" /\ lpe_stderr' = <<"Test log not found">>
       ELSE lpe_pc' = "log" /\ lpe_stderr' = lpe_stderr
    /\ UNCHANGED <<lpe_env, lpe_log, log_i, lpe_data, lpe_count, disk,
                   open_testfiles, reads, writes, answers, write_rest>>
    /\ UNCHANGED <<iconVars, copyVars, pageVars, uiVars>>

\* data[tag] = value
Put(dict, tag, value) ==
    [t \in DOMAIN dict \cup {tag} |-> IF t = tag THEN value ELSE dict[t]]

\* a pair whose tag is not b
ParseTag ==
    /\ lpe_pc = "log" /\ log_i < Len(lpe_log)
    /\ lpe_log[log_i + 1].tag # "b"
    /\ lpe_data' = Put(lpe_data, lpe_log[log_i + 1].tag, lpe_log[log_i + 1].value)
    /\ log_i' = log_i + 1
    /\ UNCHANGED <<lpe_env, lpe_log, lpe_count, disk, open_testfiles, reads,
                   writes, answers, write_rest, lpe_stderr, lpe_pc>>
    /\ UNCHANGED <<iconVars, copyVars, pageVars, uiVars>>

\* re.search("testfiles", svg): where the first match starts, 0 for None
TestfilesAt(svg) ==
    IF \E i \in 1..Len(svg) : svg[i] = "testfiles"
    THEN CHOOSE i \in 1..Len(svg) :
             /\ svg[i] = "testfiles"
             /\ \A j \in 1..(i - 1) : svg[j] # "testfiles"
    ELSE 0

\* os.path.join(path, svg[m.start():])
TestfileName(svg) == ProjectRoot \o SubSeq(svg, TestfilesAt(svg), Len(svg))

\* a cache that never has the file
CachedNever(testfile, cache) == FALSE

\* testfile in open_testfiles
Cached(testfile, cache) == \E i \in 1..Len(cache) : cache[i].name = testfile

\* open_testfiles[testfile]
CacheGet(testfile, cache) ==
    cache[CHOOSE i \in 1..Len(cache) : cache[i].name = testfile].contents

\* open_testfiles[testfile] = contents
CachePut(testfile, contents, cache) ==
    IF Cached(testfile, cache)
    THEN [i \in 1..Len(cache) |->
             IF cache[i].name = testfile
             THEN [name |-> testfile, contents |-> contents]
             ELSE cache[i]]
    ELSE Append(cache, [name |-> testfile, contents |-> contents])

\* the keyword arguments of found besides count
FoundArgs == {"a", "b", "svg", "id"}

\* a pair whose tag is b: found and update_reference_files
FoundB ==
    /\ lpe_pc = "log" /\ log_i < Len(lpe_log)
    /\ lpe_log[log_i + 1].tag = "b"
    /\ log_i' = log_i + 1
    /\ lpe_data' = Put(lpe_data, "b", lpe_log[log_i + 1].value)
    /\ lpe_count' = lpe_count + 1
    /\ IF DOMAIN lpe_data' # FoundArgs
       THEN \* TypeError: found() misses an argument
            /\ lpe_pc' = "exit 1"
            /\ UNCHANGED <<open_testfiles, reads, lpe_stderr>>
       ELSE LET svg == lpe_data'["svg"]
                id == lpe_data'["id"][1]
                b == lpe_data'["b"]
                testfile == TestfileName(svg)
            IN  IF TestfilesAt(svg) = 0
                THEN /\ lpe_stderr' = Append(lpe_stderr, "Ignoring file")
                     /\ UNCHANGED <<open_testfiles, reads, lpe_pc>>
                ELSE IF ~Cached(testfile, open_testfiles) /\ testfile \notin DOMAIN disk
                THEN \* FileNotFoundError
                     /\ lpe_pc' = "exit 1"
                     /\ UNCHANGED <<open_testfiles, reads, lpe_stderr>>
                ELSE LET read == ~Cached(testfile, open_testfiles)
                         contents == IF read THEN disk[testfile]
                                     ELSE CacheGet(testfile, open_testfiles)
                     IN  /\ reads' = IF read THEN Append(reads, testfile) ELSE reads
                         /\ IF id \in DOMAIN contents
                            THEN /\ open_testfiles' =
                                        CachePut(testfile, [contents EXCEPT ![id] = b],
                                                 open_testfiles)
                                 /\ lpe_stderr' = lpe_stderr
                            ELSE /\ open_testfiles' =
                                        CachePut(testfile, contents, open_testfiles)
                                 /\ lpe_stderr' = Append(lpe_stderr, "Ignoring id")
                         /\ lpe_pc' = lpe_pc
    /\ UNCHANGED <<lpe_env, lpe_log, disk, writes, answers, write_rest>>
    /\ UNCHANGED <<iconVars, copyVars, pageVars, uiVars>>

\* the log is parsed: lines 129-134
EndLog ==
    /\ lpe_pc = "log" /\ log_i = Len(lpe_log)
    /\ lpe_pc' = IF Len(open_testfiles) > 0 THEN "prompt" ELSE "done"
    /\ UNCHANGED <<lpe_env, lpe_log, log_i, lpe_data, lpe_count, disk,
                   open_testfiles, reads, writes, answers, write_rest,
                   lpe_stderr>>
    /\ UNCHANGED <<iconVars, copyVars, pageVars, uiVars>>

\* what can be typed at the prompt
Typed == {"y", "Yes", "n", "NO", "maybe"}

\* txt.lower()
LowerText(txt) ==
    CASE txt = "Yes" -> "yes"
      [] txt = "NO" -> "no"
      [] OTHER -> txt

MaxPrompts == 2

\* one pass of the loop of yesnoprompt, and what main does with a return
Answer ==
    /\ lpe_pc = "prompt"
    /\ \E txt \in Typed :
          /\ answers' = Append(answers, txt)
          /\ IF LowerText(txt) \in {"y", "yes"}
             THEN lpe_pc' = "write" /\ write_rest' = open_testfiles
             ELSE IF LowerText(txt) \in {"n", "no"}
             THEN lpe_pc' = "done" /\ write_rest' = write_rest
             ELSE /\ Len(answers) < MaxPrompts
                  /\ lpe_pc' = "prompt" /\ write_rest' = write_rest
    /\ UNCHANGED <<lpe_env, lpe_log, log_i, lpe_data, lpe_count, disk,
                   open_testfiles, reads, writes, lpe_stderr>>
    /\ UNCHANGED <<iconVars, copyVars, pageVars, uiVars>>

\* one pass of the loop of lines 137-139
WriteFile ==
    /\ lpe_pc = "write" /\ write_rest # <<>>
    /\ disk' = Put(disk, Head(write_rest).name, Head(write_rest).contents)
    /\ writes' = Append(writes, Head(write_rest).name)
    /\ write_rest' = Tail(write_rest)
    /\ UNCHANGED <<lpe_env, lpe_log, log_i, lpe_data, lpe_count, open_testfiles,
                   reads, answers, lpe_stderr, lpe_pc>>
    /\ UNCHANGED <<iconVars, copyVars, pageVars, uiVars>>

\* main returns
EndLpe ==
    /\ lpe_pc = "write" /\ write_rest = <<>>
    /\ lpe_pc' = "done"
    /\ UNCHANGED <<lpe_env, lpe_log, log_i, lpe_data, lpe_count, disk,
                   open_testfiles, reads, writes, answers, write_rest,
                   lpe_stderr>>
    /\ UNCHANGED <<iconVars, copyVars, pageVars, uiVars>>

NextLpe ==
    \/ CheckProject
    \/ ParseTag
    \/ FoundB
    \/ EndLog
    \/ Answer
    \/ WriteFile
    \/ EndLpe

SpecLpe == InitLpe /\ [][NextLpe]_vars

\* ----------------------------------------------------- media-check-ui.py

\* A property name is the sequence of its parts.
FocusOnClick == <<"focus", "-", "on", "-", "click">>
focus_on_click == <<"focus", "_", "on", "_", "click">>
focusable == <<"focusable">>

\* the names and texts of the property elements in the files
PropertyNames == {FocusOnClick, focus_on_click, focusable}
PropertyTexts == {"True", "False"}

\* the classes of the object elements in the files
Classes == {"GtkButton", "GtkEntry", "GtkBox"}

\* an element opens
Open(tag, cls, id, prop, text) ==
    [ev |-> "open", tag |-> tag, cls |-> cls, id |-> id, name |-> prop,
     text |-> text]

\* an element closes
Close == [ev |-> "close", tag |-> "", cls |-> "", id |-> "", name |-> <<>>,
          text |-> ""]

\* <property name=...>text</property>
Property(prop, text) == <<Open("property", "", "", prop, text), Close>>

MaxProperties == 2

\* up to k property elements in a row
RECURSIVE Properties(_)
Properties(k) ==
    IF k = 0 THEN {<<>>}
    ELSE LET P == Properties(k - 1)
         IN  P \cup {ps \o Property(n, t) :
                        ps \in {q \in P : Len(q) = 2 * (k - 1)},
                        n \in PropertyNames, t \in PropertyTexts}

\* what an object can hold after its properties: nothing, or a <child> with
\* an object that has one property
Children ==
    {<<>>}
    \cup {<<Open("child", "", "", <<>>, "")>>
            \o <<Open("object", c, "", <<>>, "")>> \o Property(n, "False")
            \o <<Close, Close>> :
              c \in {"GtkButton", "GtkEntry"}, n \in {FocusOnClick, focusable}}

\* the files: <interface> with one object with an id
Documents ==
    {<<Open("interface", "", "", <<>>, "")>>
        \o <<Open("object", c, "b1", <<>>, "")>> \o ps \o ch
        \o <<Close, Close>> :
          c \in Classes, ps \in Properties(MaxProperties), ch \in Children}

\* PolicyCheckerToolbars.ignore
ignore == {"toolbar-tool-prefs.ui"}

\* PolicyCheckerToolbars() has been made
InitUi ==
    /\ IconsOff /\ CopyOff /\ PagesOff /\ LpeOff
    /\ ui_fn \in {"toolbar-x.ui", "toolbar-tool-prefs.ui"}
    /\ ui_doc \in Documents
    /\ ui_i = 0
    /\ chain = <<>>
    /\ objects = <<>>
    /\ obj_i = 0
    /\ ui_e = <<>>
    /\ ui_stderr = <<>>
    /\ ui_exit = <<>>
    /\ ui_pc = "glob"

\* lines 69-73: an ignored file is not parsed
OpenFile ==
    /\ ui_pc = "glob"
    /\ ui_pc' = IF ui_fn \in ignore THEN "report" ELSE "parse"
    /\ UNCHANGED <<ui_fn, ui_doc, ui_i, chain, objects, obj_i, ui_e, ui_stderr,
                   ui_exit>>
    /\ UNCHANGED <<iconVars, copyVars, pageVars, lpeVars>>

\* name.replace('-', '_')
Underscored(prop) == [i \in 1..Len(prop) |-> IF prop[i] = "-" THEN "_" ELSE prop[i]]

\* properties[key] = text
SetProperty(properties, key, text) ==
    [k \in DOMAIN properties \cup {key} |->
        IF k = key THEN text ELSE properties[k]]

\* lines 41-45, for the object at place o of objects
WithProperty(obj, prop, text) ==
    [obj EXCEPT
        !.error = IF prop \in DOMAIN obj.properties THEN <<prop>> ELSE @,
        !.properties = SetProperty(@, Underscored(prop), text)]

\* parse_child up to the loop over the children
ParseOpen ==
    /\ ui_pc = "parse" /\ ui_i < Len(ui_doc)
    /\ ui_doc[ui_i + 1].ev = "open"
    /\ LET elem == ui_doc[ui_i + 1]
       IN  IF elem.tag = "object"
           THEN /\ objects' = Append(objects,
                                     [class |-> elem.cls, id |-> elem.id,
                                      properties |-> <<>>, error |-> <<>>])
                /\ chain' = Append(chain, Len(objects) + 1)
           ELSE IF elem.tag = "property" /\ chain # <<>> /\ chain[Len(chain)] # 0
           THEN /\ objects' = [objects EXCEPT ![chain[Len(chain)]] =
                                   WithProperty(@, elem.name, elem.text)]
                /\ chain' = Append(chain, 0)
           ELSE /\ objects' = objects
                /\ chain' = Append(chain, 0)
    /\ ui_i' = ui_i + 1
    /\ UNCHANGED <<ui_fn, ui_doc, obj_i, ui_e, ui_stderr, ui_exit, ui_pc>>
    /\ UNCHANGED <<iconVars, copyVars, pageVars, lpeVars>>

\* self.chain.pop()
ParseClose ==
    /\ ui_pc = "parse" /\ ui_i < Len(ui_doc)
    /\ ui_doc[ui_i + 1].ev = "close"
    /\ chain' = SubSeq(chain, 1, Len(chain) - 1)
    /\ ui_i' = ui_i + 1
    /\ UNCHANGED <<ui_fn, ui_doc, objects, obj_i, ui_e, ui_stderr, ui_exit, ui_pc>>
    /\ UNCHANGED <<iconVars, copyVars, pageVars, lpeVars>>

\* ui.parse() has returned
Parsed ==
    /\ ui_pc = "parse" /\ ui_i = Len(ui_doc)
    /\ ui_pc' = "check"
    /\ UNCHANGED <<ui_fn, ui_doc, ui_i, chain, objects, obj_i, ui_e, ui_stderr,
                   ui_exit>>
    /\ UNCHANGED <<iconVars, copyVars, pageVars, lpeVars>>

\* properties.get(key, default)
GetProperty(properties, key, default) ==
    IF key \in DOMAIN properties THEN properties[key] ELSE default

\* policy_01_entries
policy_01_entries(cls, properties) ==
    IF cls \in {"GtkButton", "GtkMenuButton", "GtkToggleButton", "GtkRadioButton"}
    THEN IF GetProperty(properties, focusable, "True") = "False"
         THEN <<"button-focus2">>
         ELSE IF GetProperty(properties, focus_on_click, "True") # "False"
         THEN <<"button-focus1">>
         ELSE <<>>
    ELSE <<>>

\* policy_02_entries
policy_02_entries(cls, properties) ==
    IF /\ cls \in {"GtkEntry", "GtkSpinButton", "GtkComboBoxText"}
       /\ \/ GetProperty(properties, focus_on_click, "True") = "False"
          \/ GetProperty(properties, focusable, "True") = "False"
    THEN <<"entry-focus">>
    ELSE <<>>

\* report: self._e[key].append(...)
Reported(e, key, obj, msg) ==
    LET instance == [class |-> obj.class, id |-> obj.id, msg |-> msg]
    IN  IF \E i \in 1..Len(e) : e[i].code = key
        THEN [i \in 1..Len(e) |->
                 IF e[i].code = key
                 THEN [e[i] EXCEPT !.instances = Append(@, instance)]
                 ELSE e[i]]
        ELSE Append(e, [code |-> key, instances |-> <<instance>>])

\* violation, for each error of the policies in turn
RECURSIVE Violations(_, _, _)
Violations(e, errs, obj) ==
    IF errs = <<>> THEN e
    ELSE Violations(Reported(e, Head(errs), obj,
                             <<"focusable=",
                               GetProperty(obj.properties, focusable, "N/A"),
                               "focus_on_click=",
                               GetProperty(obj.properties, focus_on_click, "N/A")>>),
                    Tail(errs), obj)

\* one pass of the loop of lines 75-81; repair_id leaves the id as it is,
\* no key of properties being action-name
CheckObject ==
    /\ ui_pc = "check" /\ obj_i < Len(objects)
    /\ LET obj == objects[obj_i + 1]
           parsed == IF obj.error # <<>>
                     THEN Reported(ui_e, "parse", obj,
                                   <<"Duplicate property">> \o obj.error[1])
                     ELSE ui_e
       IN  ui_e' = Violations(parsed,
                              policy_01_entries(obj.class, obj.properties)
                                  \o policy_02_entries(obj.class, obj.properties),
                              obj)
    /\ obj_i' = obj_i + 1
    /\ UNCHANGED <<ui_fn, ui_doc, ui_i, chain, objects, ui_stderr, ui_exit, ui_pc>>
    /\ UNCHANGED <<iconVars, copyVars, pageVars, lpeVars>>

\* check goes on to print_report
Checked ==
    /\ ui_pc = "check" /\ obj_i = Len(objects)
    /\ ui_pc' = "report"
    /\ UNCHANGED <<ui_fn, ui_doc, ui_i, chain, objects, obj_i, ui_e, ui_stderr,
                   ui_exit>>
    /\ UNCHANGED <<iconVars, copyVars, pageVars, lpeVars>>

\* the keys of PolicyCheckerToolbars.errors
errors_keys == {"button-focus1", "button-focus2", "entry-focus"}

\* the lines print_report writes for the first n codes of self._e
RECURSIVE ReportLines(_)
ReportLines(n) ==
    IF n = 0 THEN <<<<"CHECKING", "TOOLBAR">>>>
    ELSE ReportLines(n - 1) \o <<<<"==", ui_e[n].code>>>>
             \o [i \in 1..Len(ui_e[n].instances) |->
                    <<"*", ui_e[n].instances[i].class, ui_e[n].instances[i].id>>
                        \o ui_e[n].instances[i].msg]

\* the instances of the first n codes of self._e
RECURSIVE Instances(_)
Instances(n) ==
    IF n = 0 THEN 0 ELSE Instances(n - 1) + Len(ui_e[n].instances)

\* print_report and what __main__ does with what it returns; a code that
\* is no key of errors raises KeyError at line 94, and the process ends
\* with status 1
PrintReport ==
    /\ ui_pc = "report"
    /\ IF \E i \in 1..Len(ui_e) : ui_e[i].code \notin errors_keys
       THEN LET bad == CHOOSE i \in 1..Len(ui_e) :
                           /\ ui_e[i].code \notin errors_keys
                           /\ \A j \in 1..(i - 1) : ui_e[j].code \in errors_keys
            IN  /\ ui_stderr' = ReportLines(bad - 1) \o <<<<"KeyError", ui_e[bad].code>>>>
                /\ ui_exit' = <<1>>
       ELSE IF Instances(Len(ui_e)) # 0
       THEN /\ ui_stderr' = ReportLines(Len(ui_e))
            /\ ui_exit' = <<-5>>
       ELSE /\ ui_stderr' = ReportLines(Len(ui_e))
                                \o <<<<"COMPLETE, NO PROBLEMS FOUND">>>>
            /\ ui_exit' = <<0>>
    /\ ui_pc' = "done"
    /\ UNCHANGED <<ui_fn, ui_doc, ui_i, chain, objects, obj_i, ui_e>>
    /\ UNCHANGED <<iconVars, copyVars, pageVars, lpeVars>>

NextUi ==
    \/ OpenFile
    \/ ParseOpen
    \/ ParseClose
    \/ Parsed
    \/ CheckObject
    \/ Checked
    \/ PrintReport

SpecUi == InitUi /\ [][NextUi]_vars

\* ------------------------------------------------- what the claims speak of

\* find_errors_in has returned
Returned == pc \in {"report", "warn", "exit", "done"}

\* the walk is over
Collected == pc # "walk"

\* The dict that find_errors_in returned for a category (empty when the
\* category is not in the result)
BucketOf(result, cat) ==
    IF \E i \in 1..Len(result) : result[i].cat = cat /\ result[i].isdict
    THEN result[CHOOSE i \in 1..Len(result) :
                    result[i].cat = cat /\ result[i].isdict].dict
    ELSE <<>>

\* the icon is listed under the key
ListedUnder(d, key, icon) ==
    \E j \in 1..Len(DictItems(d, key)) : DictItems(d, key)[j] = icon

\* the icon is listed under some key
Listed(d, icon) == \E key \in DictKeys(d) : ListedUnder(d, key, icon)

\* the icon is in some bucket of the result
InResult(result, icon) ==
    \E i \in 1..Len(result) : result[i].isdict /\ Listed(result[i].dict, icon)

\* the path is in the list
InList(list, path) == \E i \in 1..Len(list) : list[i] = path

\* The tree has file fname in <theme>/<kind>/cat
Has(theme, kind, fname) == Ent(theme, kind \o <<"/", "cat">>, fname) \in tree

\* the icon cat/<base>.svg
Icon(base) == <<"cat", "/", base, ".svg">>

\* The files of the tree that are read as icons of the kind: in a directory
\* below <theme>/<kind>/ of a theme that is not ignored, named *.svg
KindFiles(kind) ==
    {e \in tree : /\ e.theme \notin IGNORE_THEMES
                  /\ Len(e.rel) >= 3
                  /\ SubSeq(e.rel, 1, 2) = kind \o <<"/">>
                  /\ EndsWith(e.fname, SVG)}

\* where the file is, below <theme>/<kind>/
SubDir(e) == SubSeq(e.rel, 3, Len(e.rel))

\* the path of the file, as the walk spells it
FullPath(e) == PathJoin(PathJoin(PathJoin(THEME_PATH, <<e.theme>>), e.rel), e.fname)

\* The themes whose symbolic set holds the icon: a file named *-symbolic.svg
\* that stands for it
SymbolicThemes(icon) ==
    {e.theme : e \in {f \in KindFiles(SYMBOLIC) :
                         /\ EndsWith(f.fname, SYMSVG)
                         /\ PathJoin(SubDir(f), Replace(f.fname, SYMSVG, SVG)) = icon}}

\* The themes whose scalable set holds the icon: a file not named
\* *-symbolic.svg
ScalableThemes(icon) ==
    {e.theme : e \in {f \in KindFiles(SCALABLE) :
                         /\ ~EndsWith(f.fname, SYMSVG)
                         /\ PathJoin(SubDir(f), f.fname) = icon}}

\* the icons of the tree
TreeIcons ==
    {PathJoin(SubDir(f), Replace(f.fname, SYMSVG, SVG)) : f \in KindFiles(SYMBOLIC)}
    \cup {PathJoin(SubDir(f), f.fname) : f \in KindFiles(SCALABLE)}

\* the name of the icon is in the set of names
BaseIn(icon, S) == InNames(Replace(LastSegment(icon), SVG, <<>>), S)

\* the themes of the tree that are read
ReadThemes == {e.theme : e \in tree} \ IGNORE_THEMES

\* ---------------------------------------------------------------- claims

\* Scenario A: hicolor has scalable/cat/x.svg and symbolic/cat/x-symbolic.svg,
\* custom has only scalable/cat/x.svg
ScenarioA ==
    /\ Has("hicolor", SCALABLE, <<"x">> \o SVG)
    /\ Has("hicolor", SYMBOLIC, <<"x">> \o SYMSVG)
    /\ {e \in tree : e.theme = "custom"}
           = {Ent("custom", SCALABLE \o <<"/", "cat">>, <<"x">> \o SVG)}

\* C1, as stated: in scenario A find_errors_in returns the warning
\* MISSING_FROM["custom"] with cat/x.svg in it, and no error at all.
C1_ScenarioA_WarningOnly ==
    (ScenarioA /\ Returned) =>
        /\ ListedUnder(BucketOf(warnings, MISSING_FROM), <<"custom">>, Icon("x"))
        /\ errors = <<>>

\* C1, amended: in scenario A find_errors_in returns the error
\* MISSING_FROM["custom-symbolic"] with cat/x.svg in it (custom has the
\* scalable icon without its symbolic one), and no warning at all.
C1_ScenarioA_MissingSymbolic ==
    (ScenarioA /\ Returned) =>
        /\ ListedUnder(BucketOf(errors, MISSING_FROM),
                       <<"custom", "-", "symbolic">>, Icon("x"))
        /\ warnings = <<>>

C1_ScenarioA_Reached == ScenarioA /\ pc = "done" /\ exit_code = <<5>>

\* Scenario D: the plain icon is only in custom/scalable/cat, and has no
\* symbolic file anywhere
ScenarioD ==
    /\ Has("custom", SCALABLE, <<"x">> \o SVG)
    /\ ScalableThemes(Icon("x")) = {"custom"}
    /\ SymbolicThemes(Icon("x")) = {}

\* C2, as stated: in scenario D the icon is recorded under the error
\* ONLY_FOUND_IN["custom-scalable"].
C2_ScenarioD_OnlyFoundIn ==
    (ScenarioD /\ Returned) =>
        ListedUnder(BucketOf(errors, ONLY_FOUND_IN),
                    <<"custom", "-", "scalable">>, Icon("x"))

\* C2, amended: in scenario D the icon is recorded under the error
\* MISSING_FROM["custom-symbolic"], and under no key of ONLY_FOUND_IN.
C2_ScenarioD_MissingSymbolic ==
    (ScenarioD /\ Returned) =>
        /\ ListedUnder(BucketOf(errors, MISSING_FROM),
                       <<"custom", "-", "symbolic">>, Icon("x"))
        /\ ~Listed(BucketOf(errors, ONLY_FOUND_IN), Icon("x"))

C2_ScenarioD_Reached == ScenarioD /\ pc = "done" /\ only_found_in = <<>>

\* C3, as stated: an icon whose symbolic themes are all of all_symbolics is
\* in no error bucket and in no warning bucket.
C3_CompleteIconNeverReported ==
    Returned =>
        \A icon \in DOMAIN data :
            Symbolics(data[icon]) = all_symbolics =>
                ~InResult(errors, icon) /\ ~InResult(warnings, icon)

\* C3, amended: an icon whose symbolic themes are all of all_symbolics is in
\* no error bucket and in no warning bucket, provided none of the earlier
\* rules applies to it: it is not a scalable-only icon with a symbolic file,
\* not a symbolic-only icon with a scalable file, and it has no scalable
\* file in a theme where it has no symbolic one.
C3_CompleteIconNotReported ==
    Returned =>
        \A icon \in DOMAIN data :
            (/\ Symbolics(data[icon]) = all_symbolics
             /\ Scalables(data[icon]) \subseteq Symbolics(data[icon])
             /\ ~(BaseIn(icon, SCALABLE_ONLY_ICONS) /\ Symbolics(data[icon]) # {})
             /\ ~(BaseIn(icon, SYMBOLIC_ONLY_ICONS) /\ Scalables(data[icon]) # {}))
            => ~InResult(errors, icon) /\ ~InResult(warnings, icon)

C3_CompleteIcon_Reached ==
    /\ pc = "done"
    /\ Icon("x") \in DOMAIN data
    /\ Symbolics(data[Icon("x")]) = {"custom"}
    /\ all_symbolics = {"custom"}
    /\ Scalables(data[Icon("x")]) = {"custom"}

\* some error category is not empty
AnyErrorCategory ==
    \/ bad_symbolic # <<>>
    \/ bad_scalable # <<>>
    \/ \E d \in {missing_from, only_found_in, symbolic_found, scalable_found} :
           \E i \in 1..Len(d) : d[i].items # <<>>

\* C4: the process ends with status 5 if and only if some error category
\* is not empty, and with status 0 otherwise, warnings or not.
C4_ExitStatus ==
    pc = "done" => exit_code = <<IF AnyErrorCategory THEN 5 ELSE 0>>

C4_WarningsOnly_Reached ==
    pc = "done" /\ warnings # <<>> /\ ~AnyErrorCategory /\ exit_code = <<0>>

\* C5: a scalable-only icon is listed under SCALABLE_ONLY[theme] exactly for
\* the themes whose symbolic set holds it (so it is in SCALABLE_ONLY if and
\* only if some symbolic set holds it).
C5_ScalableOnly ==
    Returned =>
        \A icon \in TreeIcons : \A theme \in ReadThemes :
            BaseIn(icon, SCALABLE_ONLY_ICONS) =>
                (ListedUnder(BucketOf(errors, SCALABLE_ONLY), <<theme>>, icon)
                    <=> theme \in SymbolicThemes(icon))

C5_ScalableOnly_Reached ==
    /\ pc = "done"
    /\ Has("hicolor", SCALABLE, <<"color-wheel">> \o SVG)
    /\ ListedUnder(BucketOf(errors, SCALABLE_ONLY), <<"custom">>, Icon("color-wheel"))
    /\ ~Listed(BucketOf(errors, SCALABLE_ONLY) , Icon("x"))
    /\ Icon("x") \in DOMAIN data

\* C6: a symbolic-only icon is listed under SYMBOLIC_ONLY[theme] exactly for
\* the themes whose scalable set holds it (so it is in SYMBOLIC_ONLY if and
\* only if some scalable set holds it).
C6_SymbolicOnly ==
    Returned =>
        \A icon \in TreeIcons : \A theme \in ReadThemes :
            BaseIn(icon, SYMBOLIC_ONLY_ICONS) =>
                (ListedUnder(BucketOf(errors, SYMBOLIC_ONLY), <<theme>>, icon)
                    <=> theme \in ScalableThemes(icon))

\* scenario C: scalable/cat/list-add.svg in hicolor
C6_ScenarioC_Reached ==
    /\ pc = "done"
    /\ Has("hicolor", SCALABLE, <<"list-add">> \o SVG)
    /\ Has("custom", SYMBOLIC, <<"list-add">> \o SYMSVG)
    /\ DictKeys(BucketOf(errors, SYMBOLIC_ONLY)) = {<<"hicolor">>}
    /\ ListedUnder(BucketOf(errors, SYMBOLIC_ONLY), <<"hicolor">>, Icon("list-add"))

\* C7: the second run of the checker on the unchanged tree prints what the
\* first run printed and ends with the same status.
C7_SameReportTwice ==
    (run = 2 /\ pc = "done") => (stderr = prev_stderr /\ exit_code = prev_exit)

C7_SecondRun_Reached == run = 2 /\ pc = "done" /\ stderr # <<>>

\* Scenario E: custom has the scalable and the symbolic file of the plain
\* icon, hicolor has neither
ScenarioE ==
    /\ Has("custom", SCALABLE, <<"x">> \o SVG)
    /\ Has("custom", SYMBOLIC, <<"x">> \o SYMSVG)
    /\ "hicolor" \notin ScalableThemes(Icon("x")) \cup SymbolicThemes(Icon("x"))

\* C8, as stated: in scenario E the icon is recorded under the error
\* MISSING_FROM["hicolor"].
C8_ScenarioE_MissingFromFallback ==
    (ScenarioE /\ Returned) =>
        ListedUnder(BucketOf(errors, MISSING_FROM), <<"hicolor">>, Icon("x"))

\* a theme other than custom has a directory below its symbolic directory
OtherSymbolicSet ==
    \E e \in tree : /\ e.theme \notin IGNORE_THEMES \cup {"custom"}
                    /\ Len(e.rel) >= 3
                    /\ SubSeq(e.rel, 1, 2) = SYMBOLIC \o <<"/">>

\* C8, amended: in scenario E the icon is recorded under the error
\* MISSING_FROM["hicolor"] when some theme other than custom has a symbolic
\* set (a directory below its symbolic directory); when custom is the only
\* theme with a symbolic set the icon is not reported.
C8_ScenarioE_WithOtherSymbolicSet ==
    (ScenarioE /\ Returned) =>
        /\ OtherSymbolicSet =>
               ListedUnder(BucketOf(errors, MISSING_FROM), <<"hicolor">>, Icon("x"))
        /\ ~OtherSymbolicSet =>
               ~InResult(errors, Icon("x")) /\ ~InResult(warnings, Icon("x"))

C8_ScenarioE_Reached ==
    /\ ScenarioE /\ OtherSymbolicSet /\ pc = "done"
    /\ DictKeys(BucketOf(errors, MISSING_FROM)) = {<<"hicolor">>}

\* every <<theme, kind>> of every icon entry comes from a file of that kind
\* that is named as the kind asks
EntriesWellNamed ==
    \A icon \in DOMAIN data : \A p \in data[icon] :
        /\ p[2] = SYMBOLIC => p[1] \in SymbolicThemes(icon)
        /\ p[2] = SCALABLE => p[1] \in ScalableThemes(icon)
        /\ p[2] \in {SYMBOLIC, SCALABLE}

\* once the walk is over, every misnamed .svg file of a symbolic set is in
\* bad_symbolic with its path, and in the BAD_SYMBOLIC_NAME entry of the
\* result once find_errors_in has returned
BadSymbolicListed ==
    \A f \in KindFiles(SYMBOLIC) :
        ~EndsWith(f.fname, SYMSVG) =>
            /\ Collected => InList(bad_symbolic, FullPath(f))
            /\ Returned =>
                   \E i \in 1..Len(errors) :
                       /\ errors[i].cat = BAD_SYMBOLIC_NAME
                       /\ InList(errors[i].list, FullPath(f))

\* C9: a .svg file of a symbolic set that is not named *-symbolic.svg is in
\* BAD_SYMBOLIC_NAME with its path once the walk is over; at no time does it
\* add a <<theme, kind>> to an icon entry or make a new entry, and the step
\* that records it changes nothing else that a check reads.
C9_BadSymbolicName ==
    /\ [](EntriesWellNamed /\ BadSymbolicListed)
    /\ [][Len(bad_symbolic') > Len(bad_symbolic) =>
              UNCHANGED <<data, all_symbolics, bad_scalable, bucketVars>>]_vars

\* scenario B: custom/symbolic/cat/x.svg, beside the icon in hicolor
C9_ScenarioB_Reached ==
    /\ pc = "done"
    /\ Has("custom", SYMBOLIC, <<"x">> \o SVG)
    /\ Has("hicolor", SYMBOLIC, <<"x">> \o SYMSVG)
    /\ data[Icon("x")] = {<<"hicolor", SYMBOLIC>>}
    /\ InList(bad_symbolic,
              <<"./share/icons", "/", "custom", "/", "symbolic", "/", "cat",
                "/", "x", ".svg">>)

\* the name of the file, without .svg and without -symbolic, is ignored
Ignorable(f) ==
    InNames(Replace(Replace(f.fname, SYMSVG, SVG), SVG, <<>>),
            IGNORE_ILLUSTRATIONS \cup IGNORE_UI)

\* C10, as stated: a file with an ignored name adds to no error category
\* and to no warning category, whatever its theme, kind and name form.
C10_IgnoredNeverReported ==
    Returned =>
        \A f \in KindFiles(SYMBOLIC) \cup KindFiles(SCALABLE) :
            Ignorable(f) =>
                /\ ~InList(bad_symbolic, FullPath(f))
                /\ ~InList(bad_scalable, FullPath(f))
                /\ \A icon \in TreeIcons :
                       BaseIn(icon, IGNORE_ILLUSTRATIONS \cup IGNORE_UI) =>
                           ~InResult(errors, icon) /\ ~InResult(warnings, icon)

\* C10, amended: an icon with an ignored name is in no bucket of
\* MISSING_FROM (error or warning), ONLY_FOUND_IN, SCALABLE_ONLY and
\* SYMBOLIC_ONLY, whatever theme and kind it is found under; a file with an
\* ignored name that is misnamed for its kind is still listed under
\* BAD_SYMBOLIC_NAME or BAD_SCALABLE_NAME.
C10_IgnoredNeverClassified ==
    Returned =>
        /\ \A icon \in TreeIcons \cup DOMAIN data :
               BaseIn(icon, IGNORE_ILLUSTRATIONS \cup IGNORE_UI) =>
                   ~InResult(errors, icon) /\ ~InResult(warnings, icon)
        /\ \A f \in KindFiles(SYMBOLIC) :
               (Ignorable(f) /\ ~EndsWith(f.fname, SYMSVG)) =>
                   InList(bad_symbolic, FullPath(f))
        /\ \A f \in KindFiles(SCALABLE) :
               (Ignorable(f) /\ EndsWith(f.fname, SYMSVG)) =>
                   InList(bad_scalable, FullPath(f))

C10_Ignored_Reached ==
    /\ pc = "done"
    /\ Has("custom", SCALABLE, <<"feBlend-icon">> \o SVG)
    /\ Has("hicolor", SCALABLE, <<"resizing-handle-horizontal">> \o SVG)
    /\ Has("custom", SYMBOLIC, <<"feBlend-icon">> \o SVG)
    /\ Icon("feBlend-icon") \in DOMAIN data
    /\ Len(bad_symbolic) = 1

\* the themes named in the entries that the walk collected
CollectedThemes == {p[1] : p \in UNION {data[f] : f \in DOMAIN data}}

\* the path is below the directory of the name in THEME_PATH
Below(n, path) == IsPrefix(PathJoin(THEME_PATH, <<n>>) \o <<"/">>, path)

\* the tree has a well named and a misnamed symbolic file in application/
ApplicationFiles ==
    /\ Ent("application", SYMBOLIC \o <<"/", "cat">>, <<"x">> \o SYMSVG) \in tree
    /\ Ent("application", SYMBOLIC \o <<"/", "cat">>, <<"x">> \o SVG) \in tree

\* C11: the themes are the directories directly in THEME_PATH, and the
\* directory named application is never one of them: at no time is it the
\* theme being walked, none of its files is in an icon entry, it is not in
\* all_symbolics, and none of its files is in a naming-violation list.
C11_IgnoredThemeNotRead ==
    /\ name # "application"
    /\ "application" \notin all_symbolics \cup CollectedThemes
    /\ \A i \in 1..Len(bad_symbolic) : ~Below("application", bad_symbolic[i])
    /\ \A i \in 1..Len(bad_scalable) : ~Below("application", bad_scalable[i])
    /\ \A t \in all_symbolics \cup CollectedThemes \cup ({name} \ {""}) :
           \E e \in tree : e.theme = t /\ e.rel # <<>>

\* application/ holds a well named and a misnamed symbolic file beside a
\* complete hicolor, and the run is over with nothing reported
C11_IgnoredTheme_Reached ==
    /\ ApplicationFiles
    /\ Ent("hicolor", SYMBOLIC \o <<"/", "cat">>, <<"x">> \o SYMSVG) \in tree
    /\ pc = "done" /\ stderr = <<>> /\ exit_code = <<0>>
    /\ all_symbolics = {"hicolor"}

\* the number of (key, item) places of a dict
Places(d) ==
    Cardinality(UNION {{<<i, j>> : j \in 1..Len(d[i].items)} : i \in 1..Len(d)})

\* the lines of the report that give a total
TotalLines(k) == {i \in 1..Len(stderr) : stderr[i].k = k}

\* C12: once the errors section is written, its first line gives the total
\* len(BAD_SYMBOLIC_NAME) + len(BAD_SCALABLE_NAME) + the number of (theme,
\* icon) places of the four dict-valued error categories, an icon listed
\* under k themes counting k times; the warnings are not part of it and
\* have their own total, the number of places of the warning MISSING_FROM.
C12_ErrorTotal ==
    LET total == Len(bad_symbolic) + Len(bad_scalable)
                 + Places(only_found_in) + Places(missing_from)
                 + Places(symbolic_found) + Places(scalable_found)
    IN
    /\ pc \in {"warn", "exit", "done"} =>
          IF total = 0
          THEN TotalLines("errors found in icon themes!") = {}
          ELSE /\ TotalLines("errors found in icon themes!") = {1}
               /\ stderr[1].n = total
    /\ pc \in {"exit", "done"} =>
          /\ Cardinality(TotalLines("warnings found in icon themes"))
                 = IF warn_missing_from = <<>> THEN 0 ELSE 1
          /\ \A i \in TotalLines("warnings found in icon themes") :
                 stderr[i].n = Places(warn_missing_from)

\* the plain icon is missing from the symbolic set of two themes, a second
\* icon from one of them: three errors for two icons and two themes
C12_CountedPerTheme_Reached ==
    /\ pc = "done"
    /\ ListedUnder(missing_from, <<"hicolor", "-", "symbolic">>, Icon("x"))
    /\ ListedUnder(missing_from, <<"custom", "-", "symbolic">>, Icon("x"))
    /\ ListedUnder(missing_from, <<"custom", "-", "symbolic">>, Icon("z"))
    /\ stderr[1] = Line("errors found in icon themes!", <<>>, 3)

\* nothing is left to scan and nothing is left to classify
NothingLeft == listing = {} /\ walk = {} /\ files = {} /\ queue = <<>>

\* Once the walk is over every file of the two kinds has been scanned:
\* every misnamed one is in its list and every icon of a well named one
\* has its entry, with all the themes that hold it
ScannedAll ==
    Collected =>
        /\ \A f \in KindFiles(SYMBOLIC) :
               ~EndsWith(f.fname, SYMSVG) => InList(bad_symbolic, FullPath(f))
        /\ \A f \in KindFiles(SCALABLE) :
               EndsWith(f.fname, SYMSVG) => InList(bad_scalable, FullPath(f))
        /\ \A icon \in TreeIcons :
               LET found == ({<<t, SYMBOLIC>> : t \in SymbolicThemes(icon)}
                             \cup {<<t, SCALABLE>> : t \in ScalableThemes(icon)})
               IN  IF found = {} THEN icon \notin DOMAIN data
                   ELSE icon \in DOMAIN data /\ data[icon] = found

\* Once find_errors_in has returned every icon has been classified: the
\* icons that break a policy and the plain icons with a scalable file that
\* lacks its symbolic one are all in their buckets, whatever else was found
ClassifiedAll ==
    Returned =>
        \A icon \in DOMAIN data :
            /\ (BaseIn(icon, SCALABLE_ONLY_ICONS) /\ SymbolicThemes(icon) # {})
                   => Listed(symbolic_found, icon)
            /\ (BaseIn(icon, SYMBOLIC_ONLY_ICONS) /\ ScalableThemes(icon) # {})
                   => Listed(scalable_found, icon)
            /\ (/\ ~BaseIn(icon, SCALABLE_ONLY_ICONS \cup SYMBOLIC_ONLY_ICONS
                                 \cup IGNORE_ILLUSTRATIONS \cup IGNORE_UI)
                /\ ScalableThemes(icon) \ SymbolicThemes(icon) # {})
                   => Listed(missing_from, icon)

\* C13: problems are collected, never thrown.  No line is written and no
\* exit status is set before every theme is scanned and every icon is
\* classified; the step that records a naming violation goes on with the
\* next file of the same directory, and the step that classifies an icon
\* goes on with the next icon; the report only grows, the errors section is
\* written before the warnings section, and the exit status is set last,
\* after which nothing happens.
C13_CollectedNotThrown ==
    /\ [](ScannedAll /\ ClassifiedAll)
    /\ []((stderr # <<>> \/ exit_code # NoExit \/ Returned) => NothingLeft)
    /\ [](pc = "warn" => TotalLines("warnings found in icon themes") = {})
    /\ [](exit_code # NoExit => pc = "done")
    /\ [][(Len(bad_symbolic') > Len(bad_symbolic)
           \/ Len(bad_scalable') > Len(bad_scalable)) =>
              /\ pc' = "walk"
              /\ UNCHANGED <<listing, walk, exit_code, stderr>>
              /\ \E f \in files : files' = files \ {f}]_vars
    /\ [][bucketVars' # bucketVars =>
              /\ pc' = "classify"
              /\ queue # <<>> /\ queue' = Tail(queue)
              /\ UNCHANGED <<exit_code, stderr>>]_vars
    /\ [][stderr' # stderr =>
              /\ Len(stderr) < Len(stderr')
              /\ SubSeq(stderr', 1, Len(stderr)) = stderr
              /\ exit_code' = NoExit]_vars
    /\ [][pc # "done"]_vars

\* a misnamed file and an icon against its policy are both in the errors
\* section, a warning follows it, and the run ended with status 5
C13_AllReported_Reached ==
    /\ pc = "done" /\ exit_code = <<5>>
    /\ bad_symbolic # <<>> /\ scalable_found # <<>> /\ warn_missing_from # <<>>
    /\ TotalLines("errors found in icon themes!") = {1}
    /\ \E i \in TotalLines("warnings found in icon themes") :
           /\ i > 1
           /\ \E j \in 1..(i - 1) : stderr[j].k = "Symbolic themes should only have symbolic icons in them"
           /\ \E j \in 1..(i - 1) : stderr[j].k = "Icons should be symbolic ONLY, remove from"

\* The five inconsistency categories, as find_errors_in fills them:
\* SCALABLE_ONLY, SYMBOLIC_ONLY, the error MISSING_FROM, the warning
\* MISSING_FROM, ONLY_FOUND_IN
Categories ==
    <<symbolic_found, scalable_found, missing_from, warn_missing_from, only_found_in>>

\* the categories that list the icon
CategoriesOf(icon) == {c \in 1..Len(Categories) : Listed(Categories[c], icon)}

\* the icons listed in the dict
ItemsOf(d) == UNION {{d[i].items[j] : j \in 1..Len(d[i].items)} : i \in 1..Len(d)}

\* the icons listed anywhere
ListedIcons == UNION {ItemsOf(Categories[c]) : c \in 1..Len(Categories)}

\* C14: at every moment of a run and in the result, no icon is listed in
\* more than one of the categories SCALABLE_ONLY, SYMBOLIC_ONLY, error
\* MISSING_FROM, warning MISSING_FROM and ONLY_FOUND_IN.
C14_OneCategoryPerIcon ==
    /\ \A icon \in DOMAIN data \cup ListedIcons : Cardinality(CategoriesOf(icon)) <= 1
    /\ Returned =>
          \A icon \in DOMAIN data :
              Cardinality({cat \in {SCALABLE_ONLY, SYMBOLIC_ONLY, MISSING_FROM, ONLY_FOUND_IN} :
                              Listed(BucketOf(errors, cat), icon)})
              + (IF Listed(BucketOf(warnings, MISSING_FROM), icon) THEN 1 ELSE 0) <= 1

\* three icons listed in three categories, each in one only: the plain icon
\* is a warning, the scalable-only and the symbolic-only icons are errors
C14_ThreeCategories_Reached ==
    /\ pc = "done"
    /\ CategoriesOf(Icon("x")) = {4}
    /\ \E a, b \in DOMAIN data :
           /\ BaseIn(a, SCALABLE_ONLY_ICONS) /\ CategoriesOf(a) = {1}
           /\ BaseIn(b, SYMBOLIC_ONLY_ICONS) /\ CategoriesOf(b) = {2}

\* the icon is in no policy set and in no ignore set
Plain(icon) ==
    ~BaseIn(icon, SCALABLE_ONLY_ICONS \cup SYMBOLIC_ONLY_ICONS
                      \cup IGNORE_ILLUSTRATIONS \cup IGNORE_UI)

\* the keys under which the dict lists the icon
KeysOf(d, icon) == {key \in DictKeys(d) : ListedUnder(d, key, icon)}

\* C15: once find_errors_in has returned, a plain icon that has a scalable
\* file in some theme where it has no symbolic one is listed in the error
\* MISSING_FROM under "<theme>-symbolic" for exactly the themes where that is
\* so, and in no other category, the warnings included.
C15_ScalableWithoutSymbolic ==
    Returned =>
        \A icon \in TreeIcons :
            LET lacking == ScalableThemes(icon) \ SymbolicThemes(icon)
            IN  (Plain(icon) /\ lacking # {}) =>
                    /\ KeysOf(BucketOf(errors, MISSING_FROM), icon)
                           = {<<t, "-", "symbolic">> : t \in lacking}
                    /\ \A cat \in {ONLY_FOUND_IN, SCALABLE_ONLY, SYMBOLIC_ONLY} :
                           ~Listed(BucketOf(errors, cat), icon)
                    /\ ~InResult(warnings, icon)

\* the icon is scalable in hicolor and custom and symbolic in custom only:
\* it is missing from hicolor-symbolic and from nothing else
C15_MissingSymbolic_Reached ==
    /\ pc = "done"
    /\ ScalableThemes(Icon("x")) = {"hicolor", "custom"}
    /\ SymbolicThemes(Icon("x")) = {"custom"}
    /\ KeysOf(BucketOf(errors, MISSING_FROM), Icon("x")) = {<<"hicolor", "-", "symbolic">>}

\* C16: once find_errors_in has returned, a plain icon whose scalable themes
\* all have its symbolic file, that is symbolic in hicolor and not in every
\* theme of all_symbolics, is listed in the warning MISSING_FROM under
\* exactly the themes of all_symbolics that lack it and in no error
\* category; hicolor is never a key of the warning MISSING_FROM.
C16_MissingFromOthersIsWarning ==
    Returned =>
        /\ \A icon \in TreeIcons :
               (/\ Plain(icon)
                /\ ScalableThemes(icon) \subseteq SymbolicThemes(icon)
                /\ "hicolor" \in SymbolicThemes(icon)
                /\ SymbolicThemes(icon) # all_symbolics) =>
                    /\ KeysOf(BucketOf(warnings, MISSING_FROM), icon)
                           = {<<t>> : t \in all_symbolics \ SymbolicThemes(icon)}
                    /\ ~InResult(errors, icon)
        /\ <<"hicolor">> \notin DictKeys(BucketOf(warnings, MISSING_FROM))
        /\ <<"hicolor">> \notin DictKeys(warn_missing_from)

\* the icon is symbolic in hicolor and custom, theme third has an empty
\* symbolic directory: the only warning is 'missing from third', status 0
C16_WarningForThird_Reached ==
    /\ pc = "done" /\ exit_code = <<0>>
    /\ SymbolicThemes(Icon("x")) = {"hicolor", "custom"}
    /\ all_symbolics = {"hicolor", "custom", "third"}
    /\ KeysOf(BucketOf(warnings, MISSING_FROM), Icon("x")) = {<<"third">>}

\* the (theme, kind) pairs in which the tree holds the icon
PairsOf(icon) ==
    {<<t, SYMBOLIC>> : t \in SymbolicThemes(icon)}
    \cup {<<t, SCALABLE>> : t \in ScalableThemes(icon)}

\* the categories of the errors, other than the one named, do not list the
\* icon, and no warning does
OnlyInError(cat, icon) ==
    /\ \A other \in {MISSING_FROM, ONLY_FOUND_IN, SCALABLE_ONLY, SYMBOLIC_ONLY} \ {cat} :
           ~Listed(BucketOf(errors, other), icon)
    /\ ~InResult(warnings, icon)

\* C17: once find_errors_in has returned, a plain icon whose scalable themes
\* all have its symbolic file, that is not symbolic in hicolor and not in
\* every theme of all_symbolics: when the tree holds it in exactly one
\* (theme, kind) it is listed in ONLY_FOUND_IN under "<theme>-<kind>" and
\* nowhere else; otherwise it is listed in the error MISSING_FROM under
\* "hicolor" and nowhere else.
C17_NotInFallback ==
    Returned =>
        \A icon \in TreeIcons :
            (/\ Plain(icon)
             /\ PairsOf(icon) # {}
             /\ ScalableThemes(icon) \subseteq SymbolicThemes(icon)
             /\ SymbolicThemes(icon) # all_symbolics
             /\ "hicolor" \notin SymbolicThemes(icon)) =>
                IF Cardinality(PairsOf(icon)) = 1
                THEN /\ KeysOf(BucketOf(errors, ONLY_FOUND_IN), icon)
                            = {<<p[1], "-">> \o p[2] : p \in PairsOf(icon)}
                     /\ OnlyInError(ONLY_FOUND_IN, icon)
                ELSE /\ KeysOf(BucketOf(errors, MISSING_FROM), icon) = {<<"hicolor">>}
                     /\ OnlyInError(MISSING_FROM, icon)

\* the icon is symbolic in custom and third, hicolor has an empty symbolic
\* directory: the icon is missing from hicolor, an error
C17_MissingFromFallback_Reached ==
    /\ pc = "done" /\ exit_code = <<5>>
    /\ PairsOf(Icon("x")) = {<<"custom", SYMBOLIC>>, <<"third", SYMBOLIC>>}
    /\ all_symbolics = {"hicolor", "custom", "third"}
    /\ KeysOf(BucketOf(errors, MISSING_FROM), Icon("x")) = {<<"hicolor">>}

\* C18: an icon whose name is in SCALABLE_ONLY_ICONS, SYMBOLIC_ONLY_ICONS,
\* IGNORE_ILLUSTRATIONS or IGNORE_UI is at no time listed in the error
\* MISSING_FROM, the warning MISSING_FROM or ONLY_FOUND_IN, and is in none of
\* them in the result.
C18_PolicyIconsNotCompared ==
    /\ \A icon \in ItemsOf(missing_from) \cup ItemsOf(warn_missing_from)
                       \cup ItemsOf(only_found_in) : Plain(icon)
    /\ \A icon \in ItemsOf(BucketOf(errors, MISSING_FROM))
                       \cup ItemsOf(BucketOf(errors, ONLY_FOUND_IN))
                       \cup ItemsOf(BucketOf(warnings, MISSING_FROM)) : Plain(icon)

\* a symbolic-only icon is symbolic in hicolor only, custom has another
\* symbolic directory and a scalable-only icon in its scalable set: nothing
\* is reported
C18_SymbolicOnlyInFallback_Reached ==
    /\ pc = "done" /\ stderr = <<>>
    /\ Has("hicolor", SYMBOLIC, <<"list-add">> \o SYMSVG)
    /\ Has("custom", SYMBOLIC, <<>>)
    /\ Has("custom", SCALABLE, <<"color-wheel">> \o SVG)
    /\ all_symbolics = {"hicolor", "custom"}
    /\ DOMAIN data = {Icon("list-add"), Icon("color-wheel")}

\* the themes that are read and have a directory below <theme>/symbolic/,
\* whatever it holds
SymbolicSets ==
    {e.theme : e \in {f \in tree : /\ f.theme \notin IGNORE_THEMES
                                   /\ Len(f.rel) >= 3
                                   /\ SubSeq(f.rel, 1, 2) = SYMBOLIC \o <<"/">>}}

\* the themes with a well named file in a symbolic set
NamedSymbolicSets ==
    {f.theme : f \in {g \in KindFiles(SYMBOLIC) : EndsWith(g.fname, SYMSVG)}}

\* C19 as stated: a theme is in all_symbolics only if a file named
\* *-symbolic.svg was found in its symbolic set, and a theme without such a
\* file is never a key of the warning MISSING_FROM.
C19_SymbolicSetNeedsNamedFile ==
    /\ all_symbolics \subseteq NamedSymbolicSets
    /\ \A key \in DictKeys(warn_missing_from) :
           \E t \in NamedSymbolicSets : key = <<t>>

\* C19, amended: a theme is in all_symbolics as soon as the walk has
\* visited a directory below its symbolic directory, whatever the directory
\* holds; once the walk is over all_symbolics is the set of the themes with
\* such a directory, and a plain icon that is symbolic in hicolor with no
\* scalable file lacking its symbolic one is listed in the warning
\* MISSING_FROM under every such theme that lacks it, the themes whose
\* symbolic directories are empty or hold only misnamed or non-.svg files
\* included.
C19_SymbolicSetIsDirectory ==
    /\ all_symbolics \subseteq SymbolicSets
    /\ Collected => all_symbolics = SymbolicSets
    /\ Returned =>
          \A icon \in TreeIcons :
              (/\ Plain(icon)
               /\ "hicolor" \in SymbolicThemes(icon)
               /\ ScalableThemes(icon) \subseteq SymbolicThemes(icon)) =>
                  \A t \in SymbolicSets \ SymbolicThemes(icon) :
                      ListedUnder(BucketOf(warnings, MISSING_FROM), <<t>>, icon)

\* custom/symbolic/cat holds a misnamed file and a .png only, hicolor has
\* the icon: custom is in all_symbolics and the icon is missing from custom
C19_MisnamedOnly_Reached ==
    /\ pc = "done"
    /\ FilesOf(tree, "custom", SYMBOLIC \o <<"/", "cat">>) = {<<"x">> \o SVG, <<"x", ".png">>}
    /\ "custom" \notin NamedSymbolicSets
    /\ "custom" \in all_symbolics
    /\ ListedUnder(BucketOf(warnings, MISSING_FROM), <<"custom">>, Icon("x"))

\* the files of the themes that are read, below a kind directory that is
\* neither symbolic nor scalable
OtherKindFiles ==
    {e \in tree : /\ e.theme \notin IGNORE_THEMES
                  /\ e.fname # <<>>
                  /\ Len(e.rel) >= 1
                  /\ <<e.rel[1]>> \notin {SYMBOLIC, SCALABLE}}

\* C20: the files below a kind directory other than symbolic and scalable
\* are never scanned: at no time is such a directory the one being scanned,
\* every (theme, kind) of an icon entry comes from a file of the symbolic or
\* the scalable set, such a directory puts no theme into all_symbolics, and
\* none of its files is in a naming-violation list, whatever its name.
C20_OtherKindsSkipped ==
    /\ cur.kind \in {<<>>, SYMBOLIC, SCALABLE}
    /\ \A icon \in DOMAIN data : data[icon] \subseteq PairsOf(icon)
    /\ all_symbolics \subseteq SymbolicSets
    /\ \A e \in OtherKindFiles :
           /\ ~InList(bad_symbolic, FullPath(e))
           /\ ~InList(bad_scalable, FullPath(e))

\* hicolor/cursors/cat holds x-symbolic.svg and x.svg beside the icon in
\* hicolor/symbolic/cat: the run ends with nothing reported and the icon is
\* known as a symbolic icon of hicolor only
C20_Cursors_Reached ==
    /\ pc = "done" /\ stderr = <<>>
    /\ Ent("hicolor", <<"cursors", "/", "cat">>, <<"x">> \o SYMSVG) \in OtherKindFiles
    /\ Ent("hicolor", <<"cursors", "/", "cat">>, <<"x">> \o SVG) \in OtherKindFiles
    /\ all_symbolics = {"hicolor"}
    /\ data = (Icon("x") :> {<<"hicolor", SYMBOLIC>>})

\* the keys "<theme>-symbolic" under which the dict lists the icon
SymbolicKeysOf(d, icon) == {key \in KeysOf(d, icon) : Len(key) > 1}

\* C21: the identity of an icon is its path below <theme>/<kind>/: a file
\* adds its (theme, kind) to the entry of its own directory only, so that
\* once the walk is over the entry of every identity holds exactly the
\* (theme, kind) of the files of that directory, and once find_errors_in has
\* returned every icon is missing from "<theme>-symbolic" for exactly the
\* themes where its own directory has the scalable file without the symbolic
\* one, whatever holds for an icon of the same name in another directory.
C21_IdentityIsRelativePath ==
    /\ \A icon \in DOMAIN data : data[icon] \subseteq PairsOf(icon)
    /\ Collected =>
          /\ \A icon \in TreeIcons : PairsOf(icon) # {} =>
                 icon \in DOMAIN data /\ data[icon] = PairsOf(icon)
          /\ \A f \in KindFiles(SYMBOLIC) \cup KindFiles(SCALABLE) :
                 Replace(f.fname, SYMSVG, SVG) \notin DOMAIN data
    /\ Returned =>
          \A icon \in TreeIcons :
              SymbolicKeysOf(BucketOf(errors, MISSING_FROM), icon)
                  = {<<t, "-", "symbolic">> :
                         t \in ScalableThemes(icon) \ SymbolicThemes(icon)}

\* hicolor has cat/x in both kinds and dog/x as a scalable file only: dog/x
\* is missing from hicolor-symbolic and cat/x is not reported
C21_SameNameTwoDirectories_Reached ==
    /\ pc = "done"
    /\ data = (<<"cat", "/", "x", ".svg">> :> {<<"hicolor", SYMBOLIC>>, <<"hicolor", SCALABLE>>})
              @@ (<<"dog", "/", "x", ".svg">> :> {<<"hicolor", SCALABLE>>})
    /\ KeysOf(BucketOf(errors, MISSING_FROM), <<"dog", "/", "x", ".svg">>)
           = {<<"hicolor", "-", "symbolic">>}
    /\ ~InResult(errors, <<"cat", "/", "x", ".svg">>)

\* C22: the name of an icon is the same from either kind: once the walk is
\* over, a file <dir>/N-symbolic.svg of a symbolic set and a file <dir>/N.svg
\* of a scalable set are in one entry, <dir>/N.svg, that holds the (theme,
\* symbolic) of the one and the (theme, scalable) of the other; no entry is
\* named *-symbolic.svg, and every (theme, kind) of an entry comes from a
\* file that is named as its kind demands.
C22_OneNameForBothKinds ==
    /\ \A icon \in DOMAIN data :
           /\ ~EndsWith(icon, SYMSVG)
           /\ \A p \in data[icon] :
                  \E f \in KindFiles(p[2]) :
                      /\ f.theme = p[1]
                      /\ EndsWith(f.fname, SYMSVG) <=> p[2] = SYMBOLIC
                      /\ PathJoin(SubDir(f), Replace(f.fname, SYMSVG, SVG)) = icon
    /\ Collected =>
          \A f \in KindFiles(SYMBOLIC), g \in KindFiles(SCALABLE) :
              (/\ EndsWith(f.fname, SYMSVG) /\ ~EndsWith(g.fname, SYMSVG)
               /\ SubDir(f) = SubDir(g)
               /\ Replace(f.fname, SYMSVG, SVG) = g.fname) =>
                  /\ PathJoin(SubDir(g), g.fname) \in DOMAIN data
                  /\ {<<f.theme, SYMBOLIC>>, <<g.theme, SCALABLE>>}
                         \subseteq data[PathJoin(SubDir(g), g.fname)]

\* hicolor/symbolic/cat/x-symbolic.svg and custom/scalable/cat/x.svg are the
\* one icon cat/x.svg
C22_BothKindsOneEntry_Reached ==
    /\ Collected
    /\ tree = {Ent("hicolor", SYMBOLIC \o <<"/", "cat">>, <<"x">> \o SYMSVG),
               Ent("custom", SCALABLE \o <<"/", "cat">>, <<"x">> \o SVG)}
    /\ data = (Icon("x") :> {<<"hicolor", SYMBOLIC>>, <<"custom", SCALABLE>>})

\* the .svg files of the scalable sets that are named *-symbolic.svg
MisnamedScalables == {f \in KindFiles(SCALABLE) : EndsWith(f.fname, SYMSVG)}

\* C23: a .svg file of a scalable set that is named *-symbolic.svg is in
\* bad_scalable with its path once the walk is over and in the
\* BAD_SCALABLE_NAME entry of the result once find_errors_in has returned; it
\* makes no entry under its own name, and the icon it names has the
\* (theme, scalable) and the (theme, symbolic) of that theme only from other
\* files: a scalable file not named *-symbolic.svg, a symbolic file named
\* *-symbolic.svg.
C23_BadScalableName ==
    \A f \in MisnamedScalables :
        LET named == PathJoin(SubDir(f), Replace(f.fname, SYMSVG, SVG))
        IN
        /\ PathJoin(SubDir(f), f.fname) \notin DOMAIN data
        /\ named \in DOMAIN data =>
               /\ <<f.theme, SCALABLE>> \in data[named] =>
                      f.theme \in ScalableThemes(named)
               /\ <<f.theme, SYMBOLIC>> \in data[named] =>
                      f.theme \in SymbolicThemes(named)
        /\ Collected => InList(bad_scalable, FullPath(f))
        /\ Returned =>
               \E i \in 1..Len(errors) :
                   /\ errors[i].cat = BAD_SCALABLE_NAME
                   /\ ~errors[i].isdict
                   /\ InList(errors[i].list, FullPath(f))

\* custom/scalable/cat/x-symbolic.svg beside the symbolic icon of hicolor:
\* the file is the one error of the run, and the icon is known from hicolor
\* only
C23_MisnamedScalable_Reached ==
    /\ pc = "done" /\ exit_code = <<5>>
    /\ tree = {Ent("hicolor", SYMBOLIC \o <<"/", "cat">>, <<"x">> \o SYMSVG),
               Ent("custom", SCALABLE \o <<"/", "cat">>, <<"x">> \o SYMSVG)}
    /\ data = (Icon("x") :> {<<"hicolor", SYMBOLIC>>})
    /\ errors = <<ListEntry(BAD_SCALABLE_NAME,
                            <<THEME_PATH \o <<"/", "custom", "/", "scalable", "/", "cat",
                                              "/", "x", "-symbolic", ".svg">>>>)>>

\* every list of the dict is in strictly ascending order
Ascending(d) ==
    \A i \in 1..Len(d) :
        \A j \in 1..(Len(d[i].items) - 1) : StrLess(d[i].items[j], d[i].items[j + 1])

\* C24: at every moment of the classification and in the result, every
\* per-theme list of the error MISSING_FROM, the warning MISSING_FROM,
\* ONLY_FOUND_IN, SCALABLE_ONLY and SYMBOLIC_ONLY is in strictly ascending
\* order of icon identity, as Python orders str: no identity is twice under
\* one key.
C24_ListsAscending ==
    /\ \A c \in 1..Len(Categories) : Ascending(Categories[c])
    /\ \A cat \in {MISSING_FROM, ONLY_FOUND_IN, SCALABLE_ONLY, SYMBOLIC_ONLY} :
           Ascending(BucketOf(errors, cat))
    /\ Ascending(BucketOf(warnings, MISSING_FROM))

\* hicolor has x in cat/sub and in cat, custom has x in dog: the warning
\* 'missing from custom' lists cat/sub/x.svg before cat/x.svg
C24_TwoIconsOneKey_Reached ==
    /\ pc = "done"
    /\ BucketOf(warnings, MISSING_FROM)
           = <<[key |-> <<"custom">>,
                items |-> <<<<"cat", "/", "sub", "/", "x", ".svg">>,
                            <<"cat", "/", "x", ".svg">>>>]>>
    /\ BucketOf(errors, ONLY_FOUND_IN)
           = <<[key |-> <<"custom", "-", "symbolic">>,
                items |-> <<<<"dog", "/", "x", ".svg">>>>]>>

\* the icons that the tree holds as scalable files only
ScalableOnlyObserved ==
    {icon \in TreeIcons : ScalableThemes(icon) # {} /\ SymbolicThemes(icon) = {}}

\* C25: at every moment every key of ONLY_FOUND_IN is "<theme>-symbolic" for
\* a theme other than hicolor, in the result too; an icon that the tree
\* holds as scalable files only is never listed there, and once
\* find_errors_in has returned it is in the error MISSING_FROM under
\* "<theme>-symbolic" for each theme that has it.
C25_OnlyFoundInIsSymbolic ==
    /\ \A key \in DictKeys(only_found_in) \cup DictKeys(BucketOf(errors, ONLY_FOUND_IN)) :
           \E t \in ReadThemes \ {"hicolor"} : key = <<t, "-", "symbolic">>
    /\ \A icon \in ScalableOnlyObserved :
           /\ ~Listed(only_found_in, icon)
           /\ ~Listed(BucketOf(errors, ONLY_FOUND_IN), icon)
           /\ (Returned /\ Plain(icon)) =>
                  KeysOf(BucketOf(errors, MISSING_FROM), icon)
                      = {<<t, "-", "symbolic">> : t \in ScalableThemes(icon)}

\* x is only in custom/symbolic and z only in custom/scalable, hicolor has
\* an empty symbolic directory: x is only found in custom-symbolic, z is
\* missing from custom-symbolic
C25_OneOfEach_Reached ==
    /\ pc = "done"
    /\ PairsOf(Icon("x")) = {<<"custom", SYMBOLIC>>}
    /\ PairsOf(Icon("z")) = {<<"custom", SCALABLE>>}
    /\ BucketOf(errors, ONLY_FOUND_IN)
           = <<[key |-> <<"custom", "-", "symbolic">>, items |-> <<Icon("x")>>]>>
    /\ BucketOf(errors, MISSING_FROM)
           = <<[key |-> <<"custom", "-", "symbolic">>, items |-> <<Icon("z")>>]>>

\* the files directly in <theme>/symbolic/ or <theme>/scalable/ of a theme
\* that is read
TopLevelFiles ==
    {e \in tree : /\ e.theme \notin IGNORE_THEMES
                  /\ e.rel \in {SYMBOLIC, SCALABLE}
                  /\ e.fname # <<>>}

\* the themes that are read and hold something in or below symbolic/
SymbolicDirThemes ==
    {e.theme : e \in {f \in tree : /\ f.theme \notin IGNORE_THEMES
                                   /\ Len(f.rel) >= 1
                                   /\ <<f.rel[1]>> = SYMBOLIC}}

\* C26: a file directly in <theme>/symbolic/ or <theme>/scalable/ is never
\* read: at no time is such a directory the one being scanned, the file is
\* in no naming-violation list and makes no entry (every entry is named
\* <dir>/<file>), and a theme with nothing below a directory of symbolic/ is
\* never in all_symbolics, whatever symbolic/ itself holds.
C26_TopLevelFilesIgnored ==
    /\ cur.root # <<>> \/ cur = NoDir
    /\ \A icon \in DOMAIN data : Len(icon) > Len(LastSegment(icon))
    /\ \A e \in TopLevelFiles :
           /\ ~InList(bad_symbolic, FullPath(e))
           /\ ~InList(bad_scalable, FullPath(e))
           /\ e.fname \notin DOMAIN data
           /\ Replace(e.fname, SYMSVG, SVG) \notin DOMAIN data
    /\ \A t \in SymbolicDirThemes \ SymbolicSets : t \notin all_symbolics

\* hicolor/symbolic/ holds x-symbolic.svg and x.svg directly and
\* custom/scalable/ holds x-symbolic.svg directly: the run ends with no
\* entry, no symbolic set and nothing reported
C26_TopLevel_Reached ==
    /\ pc = "done" /\ stderr = <<>> /\ exit_code = <<0>>
    /\ tree = {Ent("hicolor", SYMBOLIC, <<"x">> \o SYMSVG),
               Ent("hicolor", SYMBOLIC, <<"x">> \o SVG),
               Ent("custom", SCALABLE, <<"x">> \o SYMSVG)}
    /\ TopLevelFiles = tree
    /\ all_symbolics = {}
    /\ DOMAIN data = {}

\* the libraries that the tags of the file at the path name
NeededBy(path) == {t.needed : t \in {u \in dynamic : u.path = path}}

\* R with the libraries needed by the libraries of R that were found, and
\* so on until nothing is added
RECURSIVE Closure(_)
Closure(R) ==
    LET more == UNION {NeededBy(LibPath(l)) : l \in R \cap DOMAIN all_libs}
    IN  IF more \subseteq R THEN R ELSE Closure(R \cup more)

\* the libraries reachable from the first n input files
ReachableFrom(n) == Closure(UNION {NeededBy(args_file[i]) : i \in 1..n})

\* C27: copylibs comes to its end whatever the tags are, cycles and
\* libraries that need themselves included; needed_libs never holds a name
\* twice; while the input files are processed it holds reachable names only,
\* when a call for an input file has returned it holds every name reachable
\* from the files processed so far, and from the moment all are processed it
\* holds exactly the names reachable from the input files through the
\* libraries that were found.
C27_NeededLibsIsReachableSet ==
    /\ <>(copy_pc = "done")
    /\ [](\A i, j \in 1..Len(needed_libs) : needed_libs[i] = needed_libs[j] => i = j)
    /\ []({needed_libs[i] : i \in 1..Len(needed_libs)}
              \subseteq ReachableFrom(Len(args_file)))
    /\ [](frames = <<>> =>
              {needed_libs[i] : i \in 1..Len(needed_libs)}
                  = ReachableFrom(Len(args_file) - Len(file_rest)))

\* a.so needs itself and b.so, the input file needs a.so, and b.so was not
\* found: copylibs has ended with a.so and b.so needed, b.so without a place
C27_CycleEnded_Reached ==
    /\ copy_pc = "done"
    /\ NeededBy(LibPath("a.so")) = {"a.so", "b.so"}
    /\ NeededBy(InputPaths[1]) = {"a.so"}
    /\ DOMAIN all_libs = {"a.so"}
    /\ needed_libs = <<"a.so", "b.so">>
    /\ stdout = <<<<"a.so", LibPath("a.so")>>, <<"b.so", None>>>>

\* the fields of a line written with ";" between them
FieldCount(line) == 1 + Cardinality({i \in 1..Len(line) : line[i] = ";"})

\* C28: once get-pages has written the pages of a <defs> section, the
\* labels on stdout are pairwise distinct and none is empty, stderr has as
\* many indexes as stdout has labels, and a page whose cleaned label is
\* empty or repeats an earlier label is written as badpage<position>.
C28_LabelsDistinct ==
    (page_pc = "done" /\ defs) =>
        /\ \A i, j \in 1..Len(labels) : labels[i] = labels[j] => i = j
        /\ \A i \in 1..Len(labels) : labels[i] # <<>>
        /\ page_stdout = JoinSemicolon(labels)
        /\ FieldCount(page_stderr) = Len(labels)
        /\ \A i \in 1..Len(views) :
               LET label == Cleaned(LabelOf(views[i], i - 1))
               IN  (label = <<>> \/ \E j \in 1..(i - 1) : labels[j] = label)
                       => labels[i] = badpage(i - 1)

\* the first page is labelled BadPage2 and the second has no label:
\* get-pages has written badpage2 twice
C28_BadPageTwice_Reached ==
    /\ page_pc = "done"
    /\ views = <<[k \in {"inkscape:label"} |-> <<"BadPage", "2">>], <<>>>>
    /\ page_stdout = <<"badpage", "2", ";", "badpage", "2">>
    /\ page_stderr = <<"0", ";", "1">>

\* the last text typed at the prompt is one of S
LastAnswerIn(S) == answers # <<>> /\ answers[Len(answers)] \in S

\* the failures among the first n pairs of the log that update the path of
\* id in the reference file of that name: the position of their b tag
UpdatesOf(testfile, id, n) ==
    {k \in 1..n :
        /\ lpe_log[k].tag = "b"
        /\ \E s \in 1..k :
              /\ lpe_log[s].tag = "svg"
              /\ \A t \in (s + 1)..k : lpe_log[t].tag # "svg"
              /\ TestfilesAt(lpe_log[s].value) # 0
              /\ TestfileName(lpe_log[s].value) = testfile
        /\ \E s \in 1..k :
              /\ lpe_log[s].tag = "id"
              /\ \A t \in (s + 1)..k : lpe_log[t].tag # "id"
              /\ lpe_log[s].value[1] = id}

\* the greatest number of a set of numbers
Greatest(S) == CHOOSE k \in S : \A m \in S : m <= k

\* C29: the reference files on disk change only in a step taken after the
\* whole log is parsed and yes was the last answer; after the answer no
\* nothing is or will be written; another answer leads back to the prompt
\* with nothing written; no reference file is read twice; and the cached
\* contents of a file hold, for each path, the new path of the last failure
\* of that path processed so far, or what the disk held when none was.
C29_WrittenOnlyAfterYes ==
    /\ [][(disk' # disk \/ writes' # writes) =>
              /\ lpe_env = "ok" /\ log_i = Len(lpe_log)
              /\ LastAnswerIn({"y", "Yes"})
              /\ answers' = answers]_vars
    /\ [](LastAnswerIn({"n", "NO"}) =>
              writes = <<>> /\ disk = Disk0 /\ lpe_pc = "done")
    /\ [](LastAnswerIn({"maybe"}) =>
              writes = <<>> /\ disk = Disk0 /\ lpe_pc = "prompt")
    /\ [](\A i, j \in 1..Len(reads) : reads[i] = reads[j] => i = j)
    /\ [](\A i, j \in 1..Len(open_testfiles) :
              open_testfiles[i].name = open_testfiles[j].name => i = j)
    /\ [](\A i \in 1..Len(open_testfiles) :
              LET file == open_testfiles[i]
              IN  \A id \in DOMAIN file.contents :
                      LET U == UpdatesOf(file.name, id, log_i)
                      IN  file.contents[id] =
                              IF U = {} THEN Disk0[file.name][id]
                              ELSE lpe_log[Greatest(U)].value)
    /\ []((lpe_pc = "done" /\ LastAnswerIn({"y", "Yes"})) =>
              \A i \in 1..Len(open_testfiles) :
                  disk[open_testfiles[i].name] = open_testfiles[i].contents)

\* two failures of testfiles/x.svg, named in two ways, for the paths p1 and
\* p2; maybe and then Yes were typed: the file was read once and written
\* with both new paths
C29_TwoUpdatesWritten_Reached ==
    /\ lpe_pc = "done"
    /\ answers = <<"maybe", "Yes">>
    /\ lpe_log = <<Entry("svg", <<"build", "testfiles", "x.svg">>),
                   Entry("id", <<"p1", "">>),
                   Entry("a", <<"A">>), Entry("b", NewPath(1)),
                   Entry("svg", <<"testfiles", "x.svg">>),
                   Entry("id", <<"p2", "(0)">>),
                   Entry("a", <<"A">>), Entry("b", NewPath(2))>>
    /\ reads = <<ProjectRoot \o <<"testfiles", "x.svg">>>>
    /\ writes = reads
    /\ disk[ProjectRoot \o <<"testfiles", "x.svg">>]
           = [id \in {"p1", "p2"} |-> IF id = "p1" THEN NewPath(1) ELSE NewPath(2)]

\* how many elements are open around the one at place k of the file
DepthAt(k) ==
    Cardinality({j \in 1..(k - 1) : ui_doc[j].ev = "open"})
        - Cardinality({j \in 1..(k - 1) : ui_doc[j].ev = "close"})

\* the place where the element opens that holds the one opening at place k
ParentOf(k) ==
    Greatest({0} \cup {j \in 1..(k - 1) : /\ ui_doc[j].ev = "open"
                                          /\ DepthAt(j) = DepthAt(k) - 1})

\* the places where an object element opens
ObjectPlaces == {k \in 1..Len(ui_doc) : ui_doc[k].ev = "open" /\ ui_doc[k].tag = "object"}

\* the names that two direct property children of the object at place k bear
DuplicateNames(k) ==
    {ui_doc[p].name : p \in {q \in 1..Len(ui_doc) :
        /\ ui_doc[q].ev = "open" /\ ui_doc[q].tag = "property"
        /\ ParentOf(q) = k
        /\ \E r \in 1..(q - 1) :
              /\ ui_doc[r].ev = "open" /\ ui_doc[r].tag = "property"
              /\ ParentOf(r) = k
              /\ ui_doc[r].name = ui_doc[q].name}}

\* the object of ui.objects made for the element at place k
ObjectAt(k) == objects[Cardinality({j \in ObjectPlaces : j <= k})]

\* C30: once media-check-ui has ended on a file it does not ignore, every
\* object with two direct property children of one name, with or without a
\* hyphen, carries the error Duplicate property '<name>', the error is
\* reported under parse, and the exit status is not zero.
C30_DuplicateIsParseError ==
    (ui_pc = "done" /\ ui_fn \notin ignore) =>
        \A k \in ObjectPlaces :
            DuplicateNames(k) # {} =>
                /\ ObjectAt(k).error # <<>>
                /\ ObjectAt(k).error[1] \in DuplicateNames(k)
                /\ \E i \in 1..Len(ui_e) :
                      /\ ui_e[i].code = "parse"
                      /\ \E n \in 1..Len(ui_e[i].instances) :
                            ui_e[i].instances[n].msg
                                = <<"Duplicate property">> \o ObjectAt(k).error[1]
                /\ ui_exit # <<0>>

\* a GtkButton with focus-on-click False twice: media-check-ui has ended
\* with no error on the object, nothing reported and status 0
C30_HyphenDuplicate_Reached ==
    /\ ui_pc = "done"
    /\ ui_fn = "toolbar-x.ui"
    /\ ui_doc = <<Open("interface", "", "", <<>>, ""),
                  Open("object", "GtkButton", "b1", <<>>, "")>>
                    \o Property(FocusOnClick, "False")
                    \o Property(FocusOnClick, "False")
                    \o <<Close, Close>>
    /\ objects[1].error = <<>>
    /\ ui_e = <<>>
    /\ ui_stderr = <<<<"CHECKING", "TOOLBAR">>, <<"COMPLETE, NO PROBLEMS FOUND">>>>
    /\ ui_exit = <<0>>

=============================================================================
